---------------------------- MODULE Spec2Model ----------------------------
(***************************************************************************)
(* MobBob control program (MobBob-Control-Bluetooth.ino): the servo        *)
(* animation sequencer (loop_Animation and its intake functions) and the   *)
(* serial command parser (loop_Parser) with its command handler.           *)
(*                                                                         *)
(* Time.  The code reads millis() and keeps two time stamps,               *)
(* timeAtLastAnimUpdate and timeAtStartOfFrame, which it only ever uses    *)
(* in the differences currTime - timeAtLastAnimUpdate and                  *)
(* currTime - timeAtStartOfFrame.  The model keeps these two differences   *)
(* (sinceLastAnimUpdate, timeInCurrFrame) as state, so that the state      *)
(* space does not depend on the absolute clock value.                      *)
(*                                                                         *)
(* Arithmetic.  Joint positions are interpolated in float and truncated    *)
(* to int; the model computes the exact quotient truncated towards zero.   *)
(* A division 0/0 (a keyframe of duration 0 at the tick that promotes it)  *)
(* yields NaN whose conversion to int is undefined: the model draws the    *)
(* result from GarbageInts, as it does for a float that is outside the     *)
(* range of an int.  The parser accumulates a parameter in an int; the     *)
(* model takes the int of the AVR Arduino boards, 16 bits wide, and keeps  *)
(* the value modulo 2^16.  The frame test reads the long difference        *)
(* currTime - timeAtStartOfFrame through the int timeInCurrFrame, the      *)
(* interpolation reads the long difference itself: the model keeps the     *)
(* long difference and converts it where the code does.                    *)
(***************************************************************************)
EXTENDS Integers, Sequences, FiniteSets, TLC

(***************************************************************************)
(* Bounds of the model (not program constants).                            *)
(***************************************************************************)
\* Number of enqueueing commands dispatched (or command texts sent) in one
\* behaviour.
MaxCmds == 2
\* Largest finite loop count a command is given.
MaxLoops == 2
\* Number of bytes read in one behaviour of the free-input parser.
MaxBytes == 8
\* Number of bytes sent outside any command text in one gap between texts.
MaxNoise == 2

(***************************************************************************)
(* Program constants.                                                      *)
(***************************************************************************)
FRONT_JOINT_HIPS == 1
LEFT_HIP_CENTRE == 1580
LEFT_FOOT_CENTRE == 1410
RIGHT_HIP_CENTRE == 1500
RIGHT_FOOT_CENTRE == 1465
TWEEN_TIME_VALUE == 0
LEFT_HIP_VALUE == 1
LEFT_FOOT_VALUE == 2
RIGHT_HIP_VALUE == 3
RIGHT_FOOT_VALUE == 4
FOOT_DELTA == 150
HIP_DELTA == FRONT_JOINT_HIPS * 120
millisBetweenAnimUpdate == 20

\* The parser: delimiters, states, lengths.
START_CHAR == "<"
END_CHAR == ">"
SEP_CHAR == ","
PARSER_WAITING == 0
PARSER_COMMAND == 1
PARSER_PARAM1 == 2
PARSER_PARAM2 == 3
PARSER_PARAM3 == 4
PARSER_PARAM4 == 5
PARSER_PARAM5 == 6
PARSER_EXECUTE == 7
CMD_LENGTH == 2
MAX_PARAM_LENGTH == 6

NULL == "NULL"

\* The four joints, by their column in a keyframe row.
Joints == {LEFT_HIP_VALUE, LEFT_FOOT_VALUE, RIGHT_HIP_VALUE, RIGHT_FOOT_VALUE}

(***************************************************************************)
(* Joint helper functions.                                                 *)
(***************************************************************************)
LeftHipCentre == LEFT_HIP_CENTRE
LeftHipIn(millisecs) == LEFT_HIP_CENTRE + (FRONT_JOINT_HIPS * millisecs)
LeftHipOut(millisecs) == LEFT_HIP_CENTRE - (FRONT_JOINT_HIPS * millisecs)
RightHipCentre == RIGHT_HIP_CENTRE
RightHipIn(millisecs) == RIGHT_HIP_CENTRE - (FRONT_JOINT_HIPS * millisecs)
RightHipOut(millisecs) == RIGHT_HIP_CENTRE + (FRONT_JOINT_HIPS * millisecs)
LeftFootFlat == LEFT_FOOT_CENTRE
LeftFootUp(millisecs) == LEFT_FOOT_CENTRE - millisecs
LeftFootDown(millisecs) == LEFT_FOOT_CENTRE + millisecs
RightFootFlat == RIGHT_FOOT_CENTRE
RightFootUp(millisecs) == RIGHT_FOOT_CENTRE + millisecs
RightFootDown(millisecs) == RIGHT_FOOT_CENTRE - millisecs

(***************************************************************************)
(* Keyframe animation tables.  A table is the sequence of its rows; row 1  *)
(* of the sequence is the code's element [0], the metadata row holding the *)
(* number of frames, and keyframe f is element f + 1 of the sequence.      *)
(* A row is <<millis, leftHip, leftFoot, rightHip, rightFoot>>: column c   *)
(* of the code is element c + 1.                                           *)
(***************************************************************************)
standStraightAnim ==
  << <<1, 0, 0, 0, 0>>,
     <<300, LeftHipCentre, LeftFootFlat, RightHipCentre, RightFootFlat>> >>

walkForwardAnim ==
  << <<8, 0, 0, 0, 0>>,
     <<300, LeftHipCentre, LeftFootUp(FOOT_DELTA), RightHipCentre, RightFootDown(FOOT_DELTA)>>,
     <<300, LeftHipIn(HIP_DELTA), LeftFootUp(FOOT_DELTA), RightHipOut(HIP_DELTA), RightFootDown(FOOT_DELTA)>>,
     <<300, LeftHipIn(HIP_DELTA), LeftFootFlat, RightHipOut(HIP_DELTA), RightFootFlat>>,
     <<300, LeftHipIn(HIP_DELTA), LeftFootDown(FOOT_DELTA), RightHipOut(HIP_DELTA), RightFootUp(FOOT_DELTA)>>,
     <<300, LeftHipCentre, LeftFootDown(FOOT_DELTA), RightHipCentre, RightFootUp(FOOT_DELTA)>>,
     <<300, LeftHipOut(HIP_DELTA), LeftFootDown(FOOT_DELTA), RightHipIn(HIP_DELTA), RightFootUp(FOOT_DELTA)>>,
     <<300, LeftHipOut(HIP_DELTA), LeftFootFlat, RightHipIn(HIP_DELTA), RightFootFlat>>,
     <<300, LeftHipOut(HIP_DELTA), LeftFootUp(FOOT_DELTA), RightHipIn(HIP_DELTA), RightFootDown(FOOT_DELTA)>> >>

walkBackwardAnim ==
  << <<8, 0, 0, 0, 0>>,
     <<300, LeftHipCentre, LeftFootUp(FOOT_DELTA), RightHipCentre, RightFootDown(FOOT_DELTA)>>,
     <<300, LeftHipOut(HIP_DELTA), LeftFootUp(FOOT_DELTA), RightHipIn(HIP_DELTA), RightFootDown(FOOT_DELTA)>>,
     <<300, LeftHipOut(HIP_DELTA), LeftFootFlat, RightHipIn(HIP_DELTA), RightFootFlat>>,
     <<300, LeftHipOut(HIP_DELTA), LeftFootDown(FOOT_DELTA), RightHipIn(HIP_DELTA), RightFootUp(FOOT_DELTA)>>,
     <<300, LeftHipCentre, LeftFootDown(FOOT_DELTA), RightHipCentre, RightFootUp(FOOT_DELTA)>>,
     <<300, LeftHipIn(HIP_DELTA), LeftFootDown(FOOT_DELTA), RightHipOut(HIP_DELTA), RightFootUp(FOOT_DELTA)>>,
     <<300, LeftHipIn(HIP_DELTA), LeftFootFlat, RightHipOut(HIP_DELTA), RightFootFlat>>,
     <<300, LeftHipIn(HIP_DELTA), LeftFootUp(FOOT_DELTA), RightHipOut(HIP_DELTA), RightFootDown(FOOT_DELTA)>> >>

walkEndAnim ==
  << <<2, 0, 0, 0, 0>>,
     <<300, LeftHipCentre, LeftFootUp(FOOT_DELTA), RightHipCentre, RightFootDown(FOOT_DELTA)>>,
     <<300, LeftHipCentre, LeftFootFlat, RightHipCentre, RightFootFlat>> >>

turnLeftAnim ==
  << <<6, 0, 0, 0, 0>>,
     <<300, LeftHipCentre, LeftFootUp(FOOT_DELTA), RightHipCentre, RightFootDown(FOOT_DELTA)>>,
     <<300, LeftHipIn(HIP_DELTA), LeftFootUp(FOOT_DELTA), RightHipIn(HIP_DELTA), RightFootDown(FOOT_DELTA)>>,
     <<300, LeftHipIn(HIP_DELTA), LeftFootFlat, RightHipIn(HIP_DELTA), RightFootFlat>>,
     <<300, LeftHipIn(HIP_DELTA), LeftFootDown(FOOT_DELTA), RightHipIn(HIP_DELTA), RightFootUp(FOOT_DELTA)>>,
     <<300, LeftHipCentre, LeftFootDown(FOOT_DELTA), RightHipCentre, RightFootUp(FOOT_DELTA)>>,
     <<300, LeftHipCentre, LeftFootFlat, RightHipCentre, RightFootFlat>> >>

turnRightAnim ==
  << <<6, 0, 0, 0, 0>>,
     <<300, LeftHipCentre, LeftFootDown(FOOT_DELTA), RightHipCentre, RightFootUp(FOOT_DELTA)>>,
     <<300, LeftHipIn(HIP_DELTA), LeftFootDown(FOOT_DELTA), RightHipIn(HIP_DELTA), RightFootUp(FOOT_DELTA)>>,
     <<300, LeftHipIn(HIP_DELTA), LeftFootFlat, RightHipIn(HIP_DELTA), RightFootFlat>>,
     <<300, LeftHipIn(HIP_DELTA), LeftFootUp(FOOT_DELTA), RightHipIn(HIP_DELTA), RightFootDown(FOOT_DELTA)>>,
     <<300, LeftHipCentre, LeftFootUp(FOOT_DELTA), RightHipCentre, RightFootDown(FOOT_DELTA)>>,
     <<300, LeftHipCentre, LeftFootFlat, RightHipCentre, RightFootFlat>> >>

shakeHeadAnim ==
  << <<4, 0, 0, 0, 0>>,
     <<150, LeftHipOut(HIP_DELTA), LeftFootFlat, RightHipIn(HIP_DELTA), RightFootFlat>>,
     <<150, LeftHipCentre, LeftFootFlat, RightHipCentre, RightFootFlat>>,
     <<150, LeftHipIn(HIP_DELTA), LeftFootFlat, RightHipOut(HIP_DELTA), RightFootFlat>>,
     <<150, LeftHipCentre, LeftFootFlat, RightHipCentre, RightFootFlat>> >>

wobbleAnim ==
  << <<4, 0, 0, 0, 0>>,
     <<300, LeftHipCentre, LeftFootUp(FOOT_DELTA), RightHipCentre, RightFootDown(FOOT_DELTA)>>,
     <<300, LeftHipCentre, LeftFootFlat, RightHipCentre, RightFootFlat>>,
     <<300, LeftHipCentre, LeftFootDown(FOOT_DELTA), RightHipCentre, RightFootUp(FOOT_DELTA)>>,
     <<300, LeftHipCentre, LeftFootFlat, RightHipCentre, RightFootFlat>> >>

wobbleLeftAnim ==
  << <<2, 0, 0, 0, 0>>,
     <<300, LeftHipCentre, LeftFootUp(FOOT_DELTA), RightHipCentre, RightFootDown(FOOT_DELTA)>>,
     <<300, LeftHipCentre, LeftFootFlat, RightHipCentre, RightFootFlat>> >>

wobbleRightAnim ==
  << <<2, 0, 0, 0, 0>>,
     <<300, LeftHipCentre, LeftFootDown(FOOT_DELTA), RightHipCentre, RightFootUp(FOOT_DELTA)>>,
     <<300, LeftHipCentre, LeftFootFlat, RightHipCentre, RightFootFlat>> >>

tapFeetAnim ==
  << <<2, 0, 0, 0, 0>>,
     <<500, LeftHipCentre, LeftFootUp(FOOT_DELTA), RightHipCentre, RightFootUp(FOOT_DELTA)>>,
     <<500, LeftHipCentre, LeftFootFlat, RightHipCentre, RightFootFlat>> >>

tapLeftFootAnim ==
  << <<2, 0, 0, 0, 0>>,
     <<500, LeftHipCentre, LeftFootUp(FOOT_DELTA), RightHipCentre, RightFootFlat>>,
     <<500, LeftHipCentre, LeftFootFlat, RightHipCentre, RightFootFlat>> >>

tapRightFootAnim ==
  << <<2, 0, 0, 0, 0>>,
     <<500, LeftHipCentre, LeftFootFlat, RightHipCentre, RightFootUp(FOOT_DELTA)>>,
     <<500, LeftHipCentre, LeftFootFlat, RightHipCentre, RightFootFlat>> >>

bounceAnim ==
  << <<2, 0, 0, 0, 0>>,
     <<500, LeftHipCentre, LeftFootDown(300), RightHipCentre, RightFootDown(300)>>,
     <<500, LeftHipCentre, LeftFootFlat, RightHipCentre, RightFootFlat>> >>

shakeLegsAnim ==
  << <<14, 0, 0, 0, 0>>,
     <<300, LeftHipCentre, LeftFootUp(FOOT_DELTA), RightHipCentre, RightFootDown(FOOT_DELTA)>>,
     <<100, LeftHipCentre, LeftFootUp(FOOT_DELTA), RightHipIn(HIP_DELTA), RightFootDown(FOOT_DELTA)>>,
     <<100, LeftHipCentre, LeftFootUp(FOOT_DELTA), RightHipCentre, RightFootDown(FOOT_DELTA)>>,
     <<100, LeftHipCentre, LeftFootUp(FOOT_DELTA), RightHipOut(HIP_DELTA), RightFootDown(FOOT_DELTA)>>,
     <<100, LeftHipCentre, LeftFootUp(FOOT_DELTA), RightHipCentre, RightFootDown(FOOT_DELTA)>>,
     <<100, LeftHipCentre, LeftFootUp(FOOT_DELTA), RightHipIn(HIP_DELTA), RightFootDown(FOOT_DELTA)>>,
     <<100, LeftHipCentre, LeftFootUp(FOOT_DELTA), RightHipCentre, RightFootDown(FOOT_DELTA)>>,
     <<300, LeftHipCentre, LeftFootFlat, RightHipCentre, RightFootFlat>>,
     <<300, LeftHipCentre, LeftFootDown(FOOT_DELTA), RightHipCentre, RightFootUp(FOOT_DELTA)>>,
     <<100, LeftHipIn(HIP_DELTA), LeftFootDown(FOOT_DELTA), RightHipCentre, RightFootUp(FOOT_DELTA)>>,
     <<100, LeftHipCentre, LeftFootDown(FOOT_DELTA), RightHipCentre, RightFootUp(FOOT_DELTA)>>,
     <<100, LeftHipOut(HIP_DELTA), LeftFootDown(FOOT_DELTA), RightHipCentre, RightFootUp(FOOT_DELTA)>>,
     <<100, LeftHipCentre, LeftFootDown(FOOT_DELTA), RightHipCentre, RightFootUp(FOOT_DELTA)>>,
     <<300, LeftHipCentre, LeftFootFlat, RightHipCentre, RightFootFlat>> >>

shakeLeftLegAnim ==
  << <<12, 0, 0, 0, 0>>,
     <<300, LeftHipCentre, LeftFootDown(FOOT_DELTA), RightHipCentre, RightFootUp(FOOT_DELTA)>>,
     <<100, LeftHipIn(HIP_DELTA), LeftFootDown(FOOT_DELTA), RightHipCentre, RightFootUp(FOOT_DELTA)>>,
     <<100, LeftHipCentre, LeftFootDown(FOOT_DELTA), RightHipCentre, RightFootUp(FOOT_DELTA)>>,
     <<100, LeftHipOut(HIP_DELTA), LeftFootDown(FOOT_DELTA), RightHipCentre, RightFootUp(FOOT_DELTA)>>,
     <<100, LeftHipCentre, LeftFootDown(FOOT_DELTA), RightHipCentre, RightFootUp(FOOT_DELTA)>>,
     <<100, LeftHipIn(HIP_DELTA), LeftFootDown(FOOT_DELTA), RightHipCentre, RightFootUp(FOOT_DELTA)>>,
     <<100, LeftHipCentre, LeftFootDown(FOOT_DELTA), RightHipCentre, RightFootUp(FOOT_DELTA)>>,
     <<100, LeftHipOut(HIP_DELTA), LeftFootDown(FOOT_DELTA), RightHipCentre, RightFootUp(FOOT_DELTA)>>,
     <<100, LeftHipCentre, LeftFootDown(FOOT_DELTA), RightHipCentre, RightFootUp(FOOT_DELTA)>>,
     <<100, LeftHipIn(HIP_DELTA), LeftFootDown(FOOT_DELTA), RightHipCentre, RightFootUp(FOOT_DELTA)>>,
     <<100, LeftHipCentre, LeftFootDown(FOOT_DELTA), RightHipCentre, RightFootUp(FOOT_DELTA)>>,
     <<300, LeftHipCentre, LeftFootFlat, RightHipCentre, RightFootFlat>> >>

shakeRightLegAnim ==
  << <<12, 0, 0, 0, 0>>,
     <<300, LeftHipCentre, LeftFootUp(FOOT_DELTA), RightHipCentre, RightFootDown(FOOT_DELTA)>>,
     <<100, LeftHipCentre, LeftFootUp(FOOT_DELTA), RightHipIn(HIP_DELTA), RightFootDown(FOOT_DELTA)>>,
     <<100, LeftHipCentre, LeftFootUp(FOOT_DELTA), RightHipCentre, RightFootDown(FOOT_DELTA)>>,
     <<100, LeftHipCentre, LeftFootUp(FOOT_DELTA), RightHipOut(HIP_DELTA), RightFootDown(FOOT_DELTA)>>,
     <<100, LeftHipCentre, LeftFootUp(FOOT_DELTA), RightHipCentre, RightFootDown(FOOT_DELTA)>>,
     <<100, LeftHipCentre, LeftFootUp(FOOT_DELTA), RightHipIn(HIP_DELTA), RightFootDown(FOOT_DELTA)>>,
     <<100, LeftHipCentre, LeftFootUp(FOOT_DELTA), RightHipCentre, RightFootDown(FOOT_DELTA)>>,
     <<100, LeftHipCentre, LeftFootUp(FOOT_DELTA), RightHipOut(HIP_DELTA), RightFootDown(FOOT_DELTA)>>,
     <<100, LeftHipCentre, LeftFootUp(FOOT_DELTA), RightHipCentre, RightFootDown(FOOT_DELTA)>>,
     <<100, LeftHipCentre, LeftFootUp(FOOT_DELTA), RightHipIn(HIP_DELTA), RightFootDown(FOOT_DELTA)>>,
     <<100, LeftHipCentre, LeftFootUp(FOOT_DELTA), RightHipCentre, RightFootDown(FOOT_DELTA)>>,
     <<300, LeftHipCentre, LeftFootFlat, RightHipCentre, RightFootFlat>> >>


(***************************************************************************)
(* Inputs of the model (small sets the actions draw from).                 *)
(***************************************************************************)
\* Time that passes between two calls of loop_Animation, in milliseconds:
\* less than one update period, a part of a keyframe, more than a keyframe.
TimeSteps == {10, 150, 310}

\* Results the build may produce when it converts to int a float that is
\* NaN or outside the range of an int.
GarbageInts == {-1, 0, 32767}

\* An int of the build: 16 bits, two's complement.
Int16(x) == ((x + 32768) % 65536) - 32768

\* The values of an int.
IntRange == -32768 .. 32767

(***************************************************************************)
(* State.                                                                  *)
(*   seq  - the animation variables of the program, as a record whose      *)
(*          fields carry the names of the globals.  curr and start hold    *)
(*          curr<Joint> and start<Joint>, indexed by keyframe column;      *)
(*          servo holds the values last written with writeMicroseconds.    *)
(*          Animation pointers are the names of the tables.                *)
(*   out  - the lines written to softwareSerial, in order.                 *)
(*   hist - history variables, read by the properties only:                *)
(*          sent      the enqueueing commands dispatched so far; the       *)
(*                    identifier of a command is its index in sent;        *)
(*          nextId    the command whose animation is in the queue slot;    *)
(*          nextDuring the command that was in progress when the queued    *)
(*                    command was dispatched (0: none);                    *)
(*          animId    the command whose tag is in animCompleteStr;         *)
(*          animDuring the value of nextDuring when animId was started;    *)
(*          mark      the length of out when the last command was sent;    *)
(*          promoted  the commands that have been started;                 *)
(*          discarded the commands overwritten in the queue slot before    *)
(*                    they were ever started;                              *)
(*          abandoned the commands interrupted while in progress;          *)
(*          played    the keyframes resolved for animId since it started   *)
(*                    (for an endless loop: since its current pass began); *)
(*          notif     for each completion line of out: the command it is   *)
(*                    for, whether it is the ",-1" form and whether an     *)
(*                    animation was in progress when it was written;       *)
(*          immediate whether StopAnimImmediate has been called since the  *)
(*                    last update of loop_Animation.                       *)
(*   parser - the parser variables of the program, as a record whose       *)
(*          fields carry the names of the globals; currParamVal holds      *)
(*          currParam1Val .. currParam5Val.  Characters are one-character  *)
(*          strings.                                                       *)
(*   io   - the serial input and its history, read by the properties and   *)
(*          the input scripts only:                                        *)
(*          fed       the number of bytes read so far;                     *)
(*          consumed  the bytes read since the parser left PARSER_WAITING  *)
(*                    (empty while it waits);                              *)
(*          tail      the bytes read since the last "<", that byte         *)
(*                    included, while they are the beginning of one of     *)
(*                    the command texts of WellFormed (else empty);        *)
(*          executed  whether the last byte read completed a command;      *)
(*          disp      the commands executed: code, parameters and the      *)
(*                    bytes consumed for each;                             *)
(*          sending   the text being sent (or sent last), pending: its     *)
(*                    bytes still to come (with Receive: the bytes in the  *)
(*                    receive buffer, not read yet); done: the texts sent  *)
(*                    completely; noise: the number of bytes sent outside  *)
(*                    any text since the last text;                        *)
(*          n         the integer formatted into the text being sent.      *)
(***************************************************************************)
VARIABLES seq, out, hist, parser, io

vars == <<seq, out, hist, parser, io>>

JointsOf(row) == [j \in Joints |-> row[j + 1]]

\* The table an animation pointer points to.
AnimData(q, anim) ==
  CASE anim = "standStraightAnim" -> standStraightAnim
    [] anim = "walkForwardAnim" -> walkForwardAnim
    [] anim = "walkBackwardAnim" -> walkBackwardAnim
    [] anim = "walkEndAnim" -> walkEndAnim
    [] anim = "turnLeftAnim" -> turnLeftAnim
    [] anim = "turnRightAnim" -> turnRightAnim
    [] anim = "shakeHeadAnim" -> shakeHeadAnim
    [] anim = "wobbleAnim" -> wobbleAnim
    [] anim = "wobbleLeftAnim" -> wobbleLeftAnim
    [] anim = "wobbleRightAnim" -> wobbleRightAnim
    [] anim = "tapFeetAnim" -> tapFeetAnim
    [] anim = "tapLeftFootAnim" -> tapLeftFootAnim
    [] anim = "tapRightFootAnim" -> tapRightFootAnim
    [] anim = "bounceAnim" -> bounceAnim
    [] anim = "shakeLegsAnim" -> shakeLegsAnim
    [] anim = "shakeLeftLegAnim" -> shakeLeftLegAnim
    [] anim = "shakeRightLegAnim" -> shakeRightLegAnim
    [] anim = "setServosAnim1" -> q.setServosAnim1
    [] anim = "setServosAnim2" -> q.setServosAnim2

NumOfFrames(animData) == animData[1][1]

\* currAnim[targetFrame]
TargetRow(q) == AnimData(q, q.currAnim)[q.targetFrame + 1]

(***************************************************************************)
(* setup_Animation and the initial values of the globals.                  *)
(***************************************************************************)
setup_Animation ==
  [ currAnim |-> NULL, finishAnim |-> NULL,
    timeInCurrFrame |-> 0, targetFrame |-> 0, animNumLoops |-> 0,
    animCompleteStr |-> "--",
    animInProgress |-> FALSE,
    nextAnim |-> NULL, nextFinishAnim |-> NULL, nextAnimNumLoops |-> 0,
    nextAnimCompleteStr |-> "--",
    interruptInProgressAnim |-> FALSE,
    curr |-> JointsOf(standStraightAnim[2]),
    start |-> JointsOf(standStraightAnim[2]),
    servo |-> JointsOf(standStraightAnim[2]),
    sinceLastAnimUpdate |-> 0,
    setServosAnim1 |-> << <<1, 0, 0, 0, 0>>,
                          <<0, LeftHipCentre, LeftFootFlat, RightHipCentre, RightFootFlat>> >>,
    setServosAnim2 |-> << <<1, 0, 0, 0, 0>>,
                          <<0, LeftHipCentre, LeftFootFlat, RightHipCentre, RightFootFlat>> >> ]

InitHist ==
  [ sent |-> << >>, mark |-> 0, nextId |-> 0, nextDuring |-> 0,
    animId |-> 0, animDuring |-> 0,
    promoted |-> {}, discarded |-> {}, abandoned |-> {},
    played |-> << >>, notif |-> << >>, immediate |-> FALSE ]

\* A line "<" + str + param + ">" written to the serial port.
Line(str, param) == [str |-> str, param |-> param]

\* setup_Parser and the initial values of the parser globals.
setup_Parser ==
  [ currParserState |-> PARSER_WAITING,
    currCmd |-> <<"-", "-">>,
    currCmdIndex |-> 0,
    currParamVal |-> <<0, 0, 0, 0, 0>>,
    currParamIndex |-> 0,
    currParamNegative |-> FALSE ]

InitIo ==
  [ fed |-> 0, consumed |-> << >>, tail |-> << >>, executed |-> FALSE,
    disp |-> << >>, sending |-> << >>, pending |-> << >>, done |-> << >>,
    noise |-> 0, n |-> 0 ]

Init ==
  /\ seq = setup_Animation
  /\ out = << Line("OK", "") >>
  /\ hist = InitHist
  /\ parser = setup_Parser
  /\ io = InitIo

(***************************************************************************)
(* The intake functions.                                                   *)
(***************************************************************************)
\* Faulty variant: a queue that keeps what it already holds.
PlayAnimNumTimes_KeepQueued(q, animToPlay, finishAnim, numTimes, completeStr) ==
  IF q.nextAnim # NULL THEN q
  ELSE [q EXCEPT !.nextAnim = animToPlay,
                 !.nextFinishAnim = finishAnim,
                 !.nextAnimNumLoops = numTimes,
                 !.nextAnimCompleteStr = IF completeStr = NULL THEN "--" ELSE completeStr]

PlayAnimNumTimes(q, animToPlay, finishAnim, numTimes, completeStr) ==
  [q EXCEPT !.nextAnim = animToPlay,
            !.nextFinishAnim = finishAnim,
            !.nextAnimNumLoops = numTimes,
            !.nextAnimCompleteStr = IF completeStr = NULL THEN "--" ELSE completeStr]

PlayAnim(q, animToPlay, finishAnim, completeStr) ==
  PlayAnimNumTimes(q, animToPlay, finishAnim, 1, completeStr)

LoopAnim(q, animToPlay, finishAnim, completeStr) ==
  PlayAnimNumTimes(q, animToPlay, finishAnim, -1, completeStr)

\* Faulty variant: a stop that interrupts as an immediate stop does.
StopAnim_Interrupts(q, completeStr) ==
  PlayAnimNumTimes([q EXCEPT !.interruptInProgressAnim = TRUE],
                   "standStraightAnim", NULL, 1, completeStr)

StopAnim(q, completeStr) ==
  PlayAnimNumTimes(q, "standStraightAnim", NULL, 1, completeStr)

StopAnimImmediate(q, completeStr) ==
  PlayAnimNumTimes([q EXCEPT !.interruptInProgressAnim = TRUE],
                   "standStraightAnim", NULL, 1, completeStr)

\* The scratch table SetServos writes.
\* Faulty variant: the same table is written every time.
TweenServoData_Same(q) == "setServosAnim1"

TweenServoData(q) ==
  IF q.currAnim # "setServosAnim1" THEN "setServosAnim1" ELSE "setServosAnim2"

SetServos(q, tweenTime, leftHip, leftFoot, rightHip, rightFoot, completeStr) ==
  LET q1 == [q EXCEPT !.nextAnimCompleteStr =
                          IF completeStr = NULL THEN "--" ELSE completeStr]
      tweenServoData == TweenServoData(q1)
      row == << tweenTime, LeftHipIn(leftHip), LeftFootUp(leftFoot),
                RightHipIn(rightHip), RightFootUp(rightFoot) >>
      q2 == IF tweenServoData = "setServosAnim1"
              THEN [q1 EXCEPT !.setServosAnim1[2] = row]
              ELSE [q1 EXCEPT !.setServosAnim2[2] = row]
  IN  PlayAnim(q2, tweenServoData, NULL, completeStr)


(***************************************************************************)
(* The command handler of loop_Parser: what a completed command does.      *)
(* m is the whole machine, [seq, out, hist].                               *)
(***************************************************************************)
\* The animation and finish animation of the named animation commands.
NamedAnim(cmd) ==
  CASE cmd = "FW" -> <<"walkForwardAnim", "walkEndAnim">>
    [] cmd = "BW" -> <<"walkBackwardAnim", "walkEndAnim">>
    [] cmd = "LT" -> <<"turnLeftAnim", NULL>>
    [] cmd = "RT" -> <<"turnRightAnim", NULL>>
    [] cmd = "SX" -> <<"shakeHeadAnim", NULL>>
    [] cmd = "BX" -> <<"bounceAnim", NULL>>
    [] cmd = "WX" -> <<"wobbleAnim", NULL>>
    [] cmd = "WY" -> <<"wobbleLeftAnim", NULL>>
    [] cmd = "WZ" -> <<"wobbleRightAnim", NULL>>
    [] cmd = "TX" -> <<"tapFeetAnim", NULL>>
    [] cmd = "TY" -> <<"tapLeftFootAnim", NULL>>
    [] cmd = "TZ" -> <<"tapRightFootAnim", NULL>>
    [] cmd = "LX" -> <<"shakeLegsAnim", NULL>>
    [] cmd = "LY" -> <<"shakeLeftLegAnim", NULL>>
    [] cmd = "LZ" -> <<"shakeRightLegAnim", NULL>>

NamedCmds ==
  {"FW", "BW", "LT", "RT", "SX", "BX", "WX", "WY", "WZ", "TX", "TY", "TZ", "LX", "LY", "LZ"}

\* The commands that put an animation in the queue slot.
EnqueueCmds == NamedCmds \cup {"SV", "ST", "SI"}

\* int numTimes = currParam1Val; if (currParam1Val < 0) numTimes = -1;
NumTimes(currParam1Val) == IF currParam1Val < 0 THEN -1 ELSE currParam1Val

\* Faulty variant: the tween time is passed on as it is.
TweenTime_Raw(currParam1Val) == currParam1Val

\* int tweenTime = currParam1Val; if (currParam1Val < 0) tweenTime = 0;
TweenTime(currParam1Val) == IF currParam1Val < 0 THEN 0 ELSE currParam1Val

\* History: a dispatched command has written the queue slot of q.
HistEnqueue(h, q, cmd, param, mark) ==
  [h EXCEPT !.sent = Append(@, [cmd |-> cmd, param |-> param]),
            !.mark = mark,
            !.nextId = Len(h.sent) + 1,
            !.nextDuring = IF q.animInProgress THEN h.animId ELSE 0,
            !.discarded = IF q.nextAnim # NULL /\ h.nextId \notin h.promoted
                            THEN @ \cup {h.nextId} ELSE @,
            !.immediate = IF cmd = "SI" THEN TRUE ELSE @]

\* Faulty variant: <OK> also queues the stand-straight animation.
ExecuteSeq_OkStops(q, cmd, p) ==
  CASE cmd = "SV" -> SetServos(q, TweenTime(p[1]), p[2], p[3], p[4], p[5], "SV")
    [] cmd = "ST" -> StopAnim(q, "ST")
    [] cmd = "SI" -> StopAnimImmediate(q, "SI")
    [] cmd = "OK" -> StopAnim(q, "OK")
    [] cmd \in NamedCmds ->
         PlayAnimNumTimes(q, NamedAnim(cmd)[1], NamedAnim(cmd)[2], NumTimes(p[1]), cmd)
    [] OTHER -> q

ExecuteSeq(q, cmd, p) ==
  CASE cmd = "SV" -> SetServos(q, TweenTime(p[1]), p[2], p[3], p[4], p[5], "SV")
    [] cmd = "ST" -> StopAnim(q, "ST")
    [] cmd = "SI" -> StopAnimImmediate(q, "SI")
    [] cmd \in NamedCmds ->
         PlayAnimNumTimes(q, NamedAnim(cmd)[1], NamedAnim(cmd)[2], NumTimes(p[1]), cmd)
    [] OTHER -> q

\* Faulty variant: a command with an unknown code is answered with a line.
Execute_ReportUnknown(m, cmd, p) ==
  [ seq  |-> ExecuteSeq(m.seq, cmd, p),
    out  |-> IF cmd = "OK" THEN Append(m.out, Line("OK", ""))
             ELSE IF cmd \notin EnqueueCmds THEN Append(m.out, Line("--", ""))
             ELSE m.out,
    hist |-> IF cmd \in EnqueueCmds THEN HistEnqueue(m.hist, m.seq, cmd, p[1], Len(m.out))
                                    ELSE m.hist ]

Execute(m, cmd, p) ==
  [ seq  |-> ExecuteSeq(m.seq, cmd, p),
    out  |-> IF cmd = "OK" THEN Append(m.out, Line("OK", "")) ELSE m.out,
    hist |-> IF cmd \in EnqueueCmds THEN HistEnqueue(m.hist, m.seq, cmd, p[1], Len(m.out))
                                    ELSE m.hist ]

(***************************************************************************)
(* loop_Animation.                                                         *)
(***************************************************************************)
\* Faulty variant: the line carries the tag of the queue slot.
Notify_QueuedTag(m, param) ==
  [m EXCEPT !.out = Append(@, Line(m.seq.nextAnimCompleteStr, param)),
            !.hist.notif = Append(@, [id |-> m.hist.animId,
                                      abn |-> (param = ",-1"),
                                      inprog |-> m.seq.animInProgress])]

\* print("<"); print(animCompleteStr); println(param + ">")
Notify(m, param) ==
  [m EXCEPT !.out = Append(@, Line(m.seq.animCompleteStr, param)),
            !.hist.notif = Append(@, [id |-> m.hist.animId,
                                      abn |-> (param = ",-1"),
                                      inprog |-> m.seq.animInProgress])]

\* Faulty variant: the queued animation is started whenever there is one.
StartCondition_Always(q) == q.nextAnim # NULL

\* Faulty variant: a finish animation is not interrupted.
StartCondition_FinishProtected(q) ==
  (q.nextAnim # NULL)
    /\ (~q.animInProgress \/ (q.interruptInProgressAnim /\ q.currAnim # "walkEndAnim"))

\* The condition under which the queued animation is started.
StartCondition(q) ==
  (q.nextAnim # NULL) /\ (~q.animInProgress \/ q.interruptInProgressAnim)

\* Faulty variant: the interrupt block writes no line.
HandleInterrupt_Silent(m) ==
  [m EXCEPT !.seq.start = m.seq.curr,
            !.seq.interruptInProgressAnim = FALSE,
            !.hist.abandoned = IF m.seq.animInProgress
                                 THEN @ \cup {m.hist.animId} ELSE @]

\* Faulty variant: the interrupt block leaves the start positions alone.
HandleInterrupt_KeepStart(m) ==
  LET n == Notify(m, ",-1")
  IN  [n EXCEPT !.seq.interruptInProgressAnim = FALSE,
                !.hist.abandoned = IF m.seq.animInProgress
                                     THEN @ \cup {m.hist.animId} ELSE @]

\* Faulty variant: the interrupt block does not clear the flag.
HandleInterrupt_KeepFlag(m) ==
  LET n == Notify(m, ",-1")
  IN  [n EXCEPT !.seq.start = m.seq.curr,
                !.hist.abandoned = IF m.seq.animInProgress
                                     THEN @ \cup {m.hist.animId} ELSE @]

\* The interrupt block: the ",-1" line, the start positions, the flag.
HandleInterrupt(m) ==
  LET n == Notify(m, ",-1")
  IN  [n EXCEPT !.seq.start = m.seq.curr,
                !.seq.interruptInProgressAnim = FALSE,
                !.hist.abandoned = IF m.seq.animInProgress
                                     THEN @ \cup {m.hist.animId} ELSE @]

\* Faulty variant: the queue slot is not emptied when its animation starts.
TakeNextAnim_KeepSlot(q) ==
  [q EXCEPT !.currAnim = q.nextAnim,
            !.finishAnim = q.nextFinishAnim,
            !.animCompleteStr = q.nextAnimCompleteStr,
            !.animNumLoops = q.nextAnimNumLoops,
            !.timeInCurrFrame = 0,
            !.targetFrame = 1,
            !.animInProgress = TRUE]

\* The queue slot becomes the animation being played.
TakeNextAnim(q) ==
  [q EXCEPT !.currAnim = q.nextAnim,
            !.finishAnim = q.nextFinishAnim,
            !.animCompleteStr = q.nextAnimCompleteStr,
            !.nextAnim = NULL,
            !.nextFinishAnim = NULL,
            !.nextAnimCompleteStr = "--",
            !.animNumLoops = q.nextAnimNumLoops,
            !.timeInCurrFrame = 0,
            !.targetFrame = 1,
            !.animInProgress = TRUE]

HistStart(h, q) ==
  [h EXCEPT !.animId = h.nextId,
            !.animDuring = IF h.nextId = h.animId THEN @ ELSE h.nextDuring,
            !.promoted = @ \cup {h.nextId},
            !.played = IF h.nextId = h.animId /\ q.nextAnimNumLoops >= 0
                         THEN @ ELSE << >>,
            !.nextId = 0,
            !.nextDuring = 0]

StartNextAnim(m) ==
  IF StartCondition(m.seq)
    THEN LET m1 == IF m.seq.interruptInProgressAnim THEN HandleInterrupt(m) ELSE m
         IN  [m1 EXCEPT !.seq = TakeNextAnim(m1.seq), !.hist = HistStart(m1.hist, m1.seq)]
    ELSE m

\* Faulty variant: a keyframe of duration 0 is never switched.
FrameElapsed_Stall(q) ==
  /\ TargetRow(q)[TWEEN_TIME_VALUE + 1] > 0
  /\ Int16(q.timeInCurrFrame) > TargetRow(q)[TWEEN_TIME_VALUE + 1]

\* int timeInCurrFrame = currTime - timeAtStartOfFrame;
\* if (timeInCurrFrame > currAnim[targetFrame][TWEEN_TIME_VALUE])
FrameElapsed(q) == Int16(q.timeInCurrFrame) > TargetRow(q)[TWEEN_TIME_VALUE + 1]

\* Faulty variant: the target keyframe's values are taken for every joint.
SetTargetFrame_AllJoints(q) ==
  LET row == TargetRow(q)
      pos == [j \in Joints |-> row[j + 1]]
  IN  [q EXCEPT !.curr = pos, !.servo = pos, !.start = pos,
                !.targetFrame = @ + 1,
                !.timeInCurrFrame = 0]

\* The joints take the target keyframe's values; the next keyframe is the target.
SetTargetFrame(q) ==
  LET row == TargetRow(q)
      pos == [j \in Joints |-> IF row[j + 1] >= 0 THEN row[j + 1] ELSE q.curr[j]]
  IN  [q EXCEPT !.curr = pos, !.servo = pos, !.start = pos,
                !.targetFrame = @ + 1,
                !.timeInCurrFrame = 0]

HistPlayed(h, q) ==
  [h EXCEPT !.played = Append(@, <<q.currAnim, q.targetFrame>>)]

\* Faulty variant: the finish animation starts at its second keyframe.
SwitchToFinishAnim_SkipFrame(q) ==
  [q EXCEPT !.currAnim = q.finishAnim,
            !.finishAnim = NULL,
            !.animNumLoops = 1,
            !.timeInCurrFrame = 0,
            !.targetFrame = 2,
            !.animInProgress = TRUE]

SwitchToFinishAnim(q) ==
  [q EXCEPT !.currAnim = q.finishAnim,
            !.finishAnim = NULL,
            !.animNumLoops = 1,
            !.timeInCurrFrame = 0,
            !.targetFrame = 1,
            !.animInProgress = TRUE]

HistRequeue(h) == [h EXCEPT !.nextId = h.animId, !.nextDuring = 0]

\* Faulty variant: a count of 1 goes round once more.
EndOfAnim_OneMore(m) ==
  LET q == [m.seq EXCEPT !.animInProgress = FALSE]
      m0 == [m EXCEPT !.seq = q]
      finishOrNotify ==
        IF q.finishAnim # NULL THEN [m0 EXCEPT !.seq = SwitchToFinishAnim(q)]
                               ELSE Notify(m0, "")
  IN  IF (q.animNumLoops < 0) /\ (q.nextAnim = NULL)
        THEN [m0 EXCEPT !.seq = LoopAnim(q, q.currAnim, q.finishAnim, q.animCompleteStr),
                        !.hist = HistRequeue(m.hist)]
      ELSE IF (q.animNumLoops < 0) /\ (q.nextAnim # NULL)
        THEN finishOrNotify
      ELSE IF (q.animNumLoops > 0) /\ (q.nextAnim = NULL) /\ (q.currAnim # "walkEndAnim")
        THEN [m0 EXCEPT !.seq = PlayAnimNumTimes(q, q.currAnim, q.finishAnim,
                                                 q.animNumLoops - 1, q.animCompleteStr),
                        !.hist = HistRequeue(m.hist)]
      ELSE finishOrNotify

\* Faulty variant: an endless loop ends after one pass.
EndOfAnim_OnePass(m) ==
  LET q == [m.seq EXCEPT !.animInProgress = FALSE]
      m0 == [m EXCEPT !.seq = q]
      finishOrNotify ==
        IF q.finishAnim # NULL THEN [m0 EXCEPT !.seq = SwitchToFinishAnim(q)]
                               ELSE Notify(m0, "")
  IN  IF (q.animNumLoops > 1) /\ (q.nextAnim = NULL)
        THEN [m0 EXCEPT !.seq = PlayAnimNumTimes(q, q.currAnim, q.finishAnim,
                                                 q.animNumLoops - 1, q.animCompleteStr),
                        !.hist = HistRequeue(m.hist)]
      ELSE finishOrNotify

\* Faulty variant: a counted loop goes round again whatever is queued.
EndOfAnim_CountedAlwaysLoop(m) ==
  LET q == [m.seq EXCEPT !.animInProgress = FALSE]
      m0 == [m EXCEPT !.seq = q]
      finishOrNotify ==
        IF q.finishAnim # NULL THEN [m0 EXCEPT !.seq = SwitchToFinishAnim(q)]
                               ELSE Notify(m0, "")
  IN  IF (q.animNumLoops < 0) /\ (q.nextAnim = NULL)
        THEN [m0 EXCEPT !.seq = LoopAnim(q, q.currAnim, q.finishAnim, q.animCompleteStr),
                        !.hist = HistRequeue(m.hist)]
      ELSE IF (q.animNumLoops < 0) /\ (q.nextAnim # NULL)
        THEN finishOrNotify
      ELSE IF q.animNumLoops > 1
        THEN [m0 EXCEPT !.seq = PlayAnimNumTimes(q, q.currAnim, q.finishAnim,
                                                 q.animNumLoops - 1, q.animCompleteStr),
                        !.hist = HistRequeue(m.hist)]
      ELSE finishOrNotify

\* Faulty variant: an endless loop goes round again whatever is queued.
EndOfAnim_AlwaysLoop(m) ==
  LET q == [m.seq EXCEPT !.animInProgress = FALSE]
      m0 == [m EXCEPT !.seq = q]
      finishOrNotify ==
        IF q.finishAnim # NULL THEN [m0 EXCEPT !.seq = SwitchToFinishAnim(q)]
                               ELSE Notify(m0, "")
  IN  IF q.animNumLoops < 0
        THEN [m0 EXCEPT !.seq = LoopAnim(q, q.currAnim, q.finishAnim, q.animCompleteStr),
                        !.hist = HistRequeue(m.hist)]
      ELSE IF (q.animNumLoops > 1) /\ (q.nextAnim = NULL)
        THEN [m0 EXCEPT !.seq = PlayAnimNumTimes(q, q.currAnim, q.finishAnim,
                                                 q.animNumLoops - 1, q.animCompleteStr),
                        !.hist = HistRequeue(m.hist)]
      ELSE finishOrNotify

\* The last keyframe of currAnim has been reached: loop, finish or stop.
EndOfAnim(m) ==
  LET q == [m.seq EXCEPT !.animInProgress = FALSE]
      m0 == [m EXCEPT !.seq = q]
      finishOrNotify ==
        IF q.finishAnim # NULL THEN [m0 EXCEPT !.seq = SwitchToFinishAnim(q)]
                               ELSE Notify(m0, "")
  IN  IF (q.animNumLoops < 0) /\ (q.nextAnim = NULL)
        THEN [m0 EXCEPT !.seq = LoopAnim(q, q.currAnim, q.finishAnim, q.animCompleteStr),
                        !.hist = HistRequeue(m.hist)]
      ELSE IF (q.animNumLoops < 0) /\ (q.nextAnim # NULL)
        THEN finishOrNotify
      ELSE IF (q.animNumLoops > 1) /\ (q.nextAnim = NULL)
        THEN [m0 EXCEPT !.seq = PlayAnimNumTimes(q, q.currAnim, q.finishAnim,
                                                 q.animNumLoops - 1, q.animCompleteStr),
                        !.hist = HistRequeue(m.hist)]
      ELSE finishOrNotify

AdvanceFrame(m) ==
  IF m.seq.animInProgress /\ FrameElapsed(m.seq)
    THEN LET m1 == [m EXCEPT !.seq = SetTargetFrame(m.seq),
                             !.hist = HistPlayed(m.hist, m.seq)]
         IN  IF m1.seq.targetFrame > NumOfFrames(AnimData(m1.seq, m1.seq.currAnim))
               THEN EndOfAnim(m1) ELSE m1
    ELSE m

\* The quotient n / d (d > 0), truncated towards zero as a float-to-int conversion does.
TruncDiv(n, d) == IF n >= 0 THEN n \div d ELSE -((-n) \div d)

\* The float start + ((target - start) * frameTimeFraction), truncated
\* towards zero; frameTimeFraction = elapsed / (float) duration, duration > 0.
\* (The whole multiples of the duration in elapsed are taken out of the
\* product, which keeps the numbers of the computation small; within the
\* keyframe there is none.)
Tween(startPos, target, elapsed, duration) ==
  LET whole == (target - startPos) * (elapsed \div duration)
      n == (startPos * duration) + ((target - startPos) * (elapsed % duration))
      floor == whole + (n \div duration)
  IN  IF whole = 0 THEN TruncDiv(n, duration)
      ELSE IF (floor >= 0) \/ (n % duration = 0) THEN floor
      ELSE floor + 1

\* start + ((target - start) * frameTimeFraction), converted to int.  g: the
\* result when the fraction is 0/0 or the float is outside the range of an
\* int.
Lerp(startPos, target, elapsed, duration, g) ==
  IF duration = 0 THEN g
  ELSE IF Tween(startPos, target, elapsed, duration) \in IntRange
    THEN Tween(startPos, target, elapsed, duration)
    ELSE g

Interpolate(q, g) ==
  LET row == TargetRow(q)
      pos == [j \in Joints |->
                IF row[j + 1] >= 0
                  THEN Lerp(q.start[j], row[j + 1], q.timeInCurrFrame,
                            row[TWEEN_TIME_VALUE + 1], g)
                  ELSE q.curr[j]]
  IN  [q EXCEPT !.curr = pos, !.servo = pos]

\* The results the build may produce for a joint position in the
\* interpolation of q's target keyframe, where the conversion to int is
\* undefined: a keyframe of duration 0 divides 0 by 0, and a position
\* beyond the target may be outside the range of an int.
NaNResults(q) ==
  LET row == TargetRow(q)
  IN  IF row[TWEEN_TIME_VALUE + 1] = 0 THEN GarbageInts
      ELSE IF \E j \in Joints :
                /\ row[j + 1] >= 0
                /\ Tween(q.start[j], row[j + 1], q.timeInCurrFrame,
                         row[TWEEN_TIME_VALUE + 1]) \notin IntRange
        THEN GarbageInts
        ELSE {0}

\* Faulty variant: every call of loop_Animation is an update.
UpdateDue_Always(q) == TRUE

\* if (timeAtLastAnimUpdate + millisBetweenAnimUpdate > currTime) return;
UpdateDue(q) == ~(q.sinceLastAnimUpdate < millisBetweenAnimUpdate)

\* millis() has advanced by dt since the last call of loop_Animation.
\* timeInCurrFrame is read only while an animation is in progress and is
\* set when one starts: it is kept at 0 otherwise.
TimeAdvance(m, dt) ==
  [m EXCEPT !.seq.sinceLastAnimUpdate = @ + dt,
            !.seq.timeInCurrFrame = IF m.seq.animInProgress THEN @ + dt ELSE 0]

\* timeAtLastAnimUpdate = currTime;
UpdateTaken(m) ==
  [m EXCEPT !.seq.sinceLastAnimUpdate = 0, !.hist.immediate = FALSE]

(***************************************************************************)
(* Actions.                                                                *)
(***************************************************************************)
Machine == [seq |-> seq, out |-> out, hist |-> hist]

Becomes(m) == seq' = m.seq /\ out' = m.out /\ hist' = m.hist

\* The commands the model dispatches.
LoopCounts == {-1} \cup (0 .. MaxLoops)

Commands ==
  {[cmd |-> "FW", p |-> <<n, 0, 0, 0, 0>>] : n \in LoopCounts}
  \cup {[cmd |-> "WY", p |-> <<-1, 0, 0, 0, 0>>]}
  \cup {[cmd |-> "ST", p |-> <<0, 0, 0, 0, 0>>], [cmd |-> "SI", p |-> <<0, 0, 0, 0, 0>>]}
  \cup {[cmd |-> "SV", p |-> <<0, 40, -60, 0, 20>>],
        [cmd |-> "SV", p |-> <<100, -30, 1411, 50, 0>>]}

\* loop_Parser completes command c and executes it.
Dispatch(c) ==
  /\ Len(hist.sent) < MaxCmds
  /\ Becomes(Execute(Machine, c.cmd, c.p))
  /\ UNCHANGED <<parser, io>>

\* The steps of time the model takes in state q: a call within the update
\* period is followed by a call after it (two early calls in a row are not
\* explored).
StepsFrom(q) ==
  IF q.sinceLastAnimUpdate = 0
    THEN TimeSteps
    ELSE {dt \in TimeSteps : dt >= millisBetweenAnimUpdate}

\* loop_Animation runs on machine m, dt milliseconds after its last call: the
\* update-period check, the start of the queued animation, the frame switch,
\* the interpolation.  (The intermediate machines are bound as values.)
Update(m, dt) ==
  \E m0 \in {TimeAdvance(m, dt)} :
    IF ~UpdateDue(m0.seq)
      THEN Becomes(m0)
      ELSE \E m1 \in {StartNextAnim(UpdateTaken(m0))} :
           \E m2 \in {AdvanceFrame(m1)} :
             IF ~m2.seq.animInProgress
               THEN Becomes(m2)
               ELSE \E g \in NaNResults(m2.seq) :
                      Becomes([m2 EXCEPT !.seq = Interpolate(m2.seq, g)])

\* loop_Animation is called, with the machine as it is.
Tick(dt) ==
  /\ dt \in StepsFrom(seq)
  /\ UNCHANGED <<parser, io>>
  /\ Update(Machine, dt)

Next ==
  \/ \E c \in Commands : Dispatch(c)
  \/ \E dt \in TimeSteps : Tick(dt)

Spec == Init /\ [][Next]_vars


\* loop() runs for ever and millis() advances: loop_Animation keeps being called.
TickSome == \E dt \in TimeSteps : Tick(dt)

FairSpec == Spec /\ WF_vars(TickSome)

\* Calls of loop_Animation in quick succession: a call within the update
\* period is followed by another, dt milliseconds later, that falls within
\* the same period or on its end.
EarlySteps == {9, 10}

ThrottleCommands ==
  {[cmd |-> "FW", p |-> <<1, 0, 0, 0, 0>>],
   [cmd |-> "SI", p |-> <<0, 0, 0, 0, 0>>],
   [cmd |-> "SV", p |-> <<100, -30, 1411, 50, 0>>]}

EarlyTick(dt) ==
  /\ seq.sinceLastAnimUpdate > 0
  /\ seq.sinceLastAnimUpdate + dt <= millisBetweenAnimUpdate
  /\ UNCHANGED <<parser, io>>
  /\ Update(Machine, dt)

NextThrottle ==
  \/ \E c \in ThrottleCommands : Dispatch(c)
  \/ \E dt \in TimeSteps : Tick(dt)
  \/ \E dt \in EarlySteps : EarlyTick(dt)

ThrottleSpec == Init /\ [][NextThrottle]_vars

\* <SV> commands one after another, with different positions and times.
MaxServoCmds == 4

JointCommands ==
  {[cmd |-> "SV", p |-> <<0, 40, -60, 0, 20>>],
   [cmd |-> "SV", p |-> <<100, -30, 1411, 50, 0>>],
   [cmd |-> "SV", p |-> <<200, 10, 10, -10, -10>>]}

DispatchJoints(c) ==
  /\ Len(hist.sent) < MaxServoCmds
  /\ Becomes(Execute(Machine, c.cmd, c.p))
  /\ UNCHANGED <<parser, io>>

NextJoints ==
  \/ \E c \in JointCommands : DispatchJoints(c)
  \/ \E dt \in TimeSteps : Tick(dt)

JointsSpec == Init /\ [][NextJoints]_vars

\* Long tweens: <SV> with the longest tween time an int holds, and <ST>.
\* The one joint each <SV> moves has 20000 microseconds to travel, the other
\* joints stay at the centre.
LongCommands ==
  {[cmd |-> "SV", p |-> <<32767, 20000, 0, 0, 0>>],
   [cmd |-> "SV", p |-> <<32767, 0, 0, -20000, 0>>],
   [cmd |-> "ST", p |-> <<0, 0, 0, 0, 0>>]}

\* Time between two calls of loop_Animation while a long tween is played:
\* multiples of 4096, so that the times in the keyframe stay on one grid,
\* and short enough for an update to fall between the end of any keyframe
\* of the animation tables and 32767 milliseconds from its start.
LateSteps == {8192, 20480}

\* The time in the keyframe is kept modulo 2^16 from FoldAt on, so that time
\* can advance for ever in a finite state space.  The frame test reads the
\* time through an int, for which t and t - 2^16 are the same; the
\* interpolation of the commands of LongCommands is outside the range of an
\* int for every time above 51094, for which t and t - 2^16 give the same
\* results.
FoldAt == 131072

Folded(t) == IF t >= FoldAt THEN t - 65536 ELSE t

LateTick(dt) ==
  /\ UNCHANGED <<parser, io>>
  /\ \E m \in {[Machine EXCEPT !.seq.timeInCurrFrame = Folded(@)]} : Update(m, dt)

LateTickSome == \E dt \in LateSteps : LateTick(dt)

NextLong ==
  \/ \E c \in LongCommands : Dispatch(c)
  \/ \E dt \in LateSteps : LateTick(dt)

LongSpec == Init /\ [][NextLong]_vars

\* loop() runs for ever and millis() advances.
LongFairSpec == LongSpec /\ WF_vars(LateTickSome)

\* Counted loops, with and without a finish animation, and the stops.
CountedCommands ==
  {[cmd |-> "FW", p |-> <<MaxLoops, 0, 0, 0, 0>>],
   [cmd |-> "WY", p |-> <<MaxLoops, 0, 0, 0, 0>>],
   [cmd |-> "ST", p |-> <<0, 0, 0, 0, 0>>],
   [cmd |-> "SI", p |-> <<0, 0, 0, 0, 0>>]}

NextCounted ==
  \/ \E c \in CountedCommands : Dispatch(c)
  \/ \E dt \in TimeSteps : Tick(dt)

CountedSpec == Init /\ [][NextCounted]_vars

\* One more command is dispatched after an <SI> that no update has handled yet.
DispatchAfterImmediate(c) ==
  /\ Len(hist.sent) = MaxCmds
  /\ hist.sent[MaxCmds].cmd = "SI"
  /\ hist.immediate
  /\ Becomes(Execute(Machine, c.cmd, c.p))
  /\ UNCHANGED <<parser, io>>

NextAfterImmediate ==
  \/ \E c \in Commands : Dispatch(c)
  \/ \E c \in Commands : DispatchAfterImmediate(c)
  \/ \E dt \in TimeSteps : Tick(dt)

AfterImmediateSpec == Init /\ [][NextAfterImmediate]_vars

\* <SV,t,40,-60,0,20> is dispatched, for tween times t around 0.
ServoTimes == {-32768, -100, -1, 0, 1, 100}

DispatchServo(t) == Dispatch([cmd |-> "SV", p |-> <<t, 40, -60, 0, 20>>])

NextServo ==
  \/ \E t \in ServoTimes : DispatchServo(t)
  \/ \E dt \in TimeSteps : Tick(dt)

ServoSpec == Init /\ [][NextServo]_vars

(***************************************************************************)
(* The serial parser: loop_Parser reads one byte, if there is one, and     *)
(* executes the command the byte completes.                                *)
(***************************************************************************)
UpperCase ==
  << "A", "B", "C", "D", "E", "F", "G", "H", "I", "J", "K", "L", "M",
     "N", "O", "P", "Q", "R", "S", "T", "U", "V", "W", "X", "Y", "Z" >>

Digits == << "0", "1", "2", "3", "4", "5", "6", "7", "8", "9" >>

\* The character code of c, for the comparisons the parser makes.
Ascii(c) ==
  IF \E i \in DOMAIN UpperCase : UpperCase[i] = c
    THEN 64 + (CHOOSE i \in DOMAIN UpperCase : UpperCase[i] = c)
  ELSE IF \E i \in DOMAIN Digits : Digits[i] = c
    THEN 47 + (CHOOSE i \in DOMAIN Digits : Digits[i] = c)
  ELSE CASE c = "<" -> 60
         [] c = ">" -> 62
         [] c = "," -> 44
         [] c = "-" -> 45
         [] c = "+" -> 43
         [] c = " " -> 32
         [] c = "x" -> 120

\* The command codes the handler knows, as the two characters of currCmd.
CmdCodes ==
  { <<"O", "K">>, <<"S", "V">>, <<"S", "T">>, <<"S", "I">>, <<"F", "W">>,
    <<"B", "W">>, <<"L", "T">>, <<"R", "T">>, <<"S", "X">>, <<"B", "X">>,
    <<"W", "X">>, <<"W", "Y">>, <<"W", "Z">>, <<"T", "X">>, <<"T", "Y">>,
    <<"T", "Z">>, <<"L", "X">>, <<"L", "Y">>, <<"L", "Z">> }

CmdNames ==
  { "OK", "SV", "ST", "SI", "FW", "BW", "LT", "RT", "SX", "BX", "WX", "WY",
    "WZ", "TX", "TY", "TZ", "LX", "LY", "LZ" }

Spell(name) ==
  CASE name = "OK" -> <<"O", "K">> [] name = "SV" -> <<"S", "V">>
    [] name = "ST" -> <<"S", "T">> [] name = "SI" -> <<"S", "I">>
    [] name = "FW" -> <<"F", "W">> [] name = "BW" -> <<"B", "W">>
    [] name = "LT" -> <<"L", "T">> [] name = "RT" -> <<"R", "T">>
    [] name = "SX" -> <<"S", "X">> [] name = "BX" -> <<"B", "X">>
    [] name = "WX" -> <<"W", "X">> [] name = "WY" -> <<"W", "Y">>
    [] name = "WZ" -> <<"W", "Z">> [] name = "TX" -> <<"T", "X">>
    [] name = "TY" -> <<"T", "Y">> [] name = "TZ" -> <<"T", "Z">>
    [] name = "LX" -> <<"L", "X">> [] name = "LY" -> <<"L", "Y">>
    [] name = "LZ" -> <<"L", "Z">>

\* The command the handler's comparisons of currCmd[0], currCmd[1] select;
\* "??" when none matches (the handler then does nothing).
CmdName(currCmd) ==
  IF currCmd \in CmdCodes
    THEN CHOOSE name \in CmdNames : Spell(name) = currCmd
    ELSE "??"

\* Faulty variant: the parameters of the last command are not cleared.
ParseWaiting_KeepParams(p, c) ==
  IF c = START_CHAR
    THEN [p EXCEPT !.currParserState = PARSER_COMMAND,
                   !.currCmdIndex = 0,
                   !.currCmd = <<"-", "-">>]
    ELSE p

\* PARSER_WAITING: look for START_CHAR.
ParseWaiting(p, c) ==
  IF c = START_CHAR
    THEN [p EXCEPT !.currParserState = PARSER_COMMAND,
                   !.currCmdIndex = 0,
                   !.currCmd = <<"-", "-">>,
                   !.currParamVal = <<0, 0, 0, 0, 0>>]
    ELSE p

\* Faulty variant: the sign of the last parameter read is kept when the
\* first parameter begins.
ParseCommand_KeepSign(p, c) ==
  IF c = SEP_CHAR
    THEN IF p.currCmdIndex = CMD_LENGTH
           THEN [p EXCEPT !.currParserState = PARSER_PARAM1,
                          !.currParamIndex = 0]
           ELSE [p EXCEPT !.currParserState = PARSER_WAITING]
  ELSE IF c = END_CHAR
    THEN IF p.currCmdIndex = CMD_LENGTH
           THEN [p EXCEPT !.currParserState = PARSER_EXECUTE]
           ELSE [p EXCEPT !.currParserState = PARSER_WAITING]
  ELSE IF (p.currCmdIndex >= CMD_LENGTH) \/ (Ascii(c) < Ascii("A")) \/ (Ascii(c) > Ascii("Z"))
    THEN [p EXCEPT !.currParserState = PARSER_WAITING]
  ELSE [p EXCEPT !.currCmd[p.currCmdIndex + 1] = c,
                 !.currCmdIndex = @ + 1]

\* PARSER_COMMAND: the two letters of the command.
ParseCommand(p, c) ==
  IF c = SEP_CHAR
    THEN IF p.currCmdIndex = CMD_LENGTH
           THEN [p EXCEPT !.currParserState = PARSER_PARAM1,
                          !.currParamIndex = 0,
                          !.currParamNegative = FALSE]
           ELSE [p EXCEPT !.currParserState = PARSER_WAITING]
  ELSE IF c = END_CHAR
    THEN IF p.currCmdIndex = CMD_LENGTH
           THEN [p EXCEPT !.currParserState = PARSER_EXECUTE]
           ELSE [p EXCEPT !.currParserState = PARSER_WAITING]
  ELSE IF (p.currCmdIndex >= CMD_LENGTH) \/ (Ascii(c) < Ascii("A")) \/ (Ascii(c) > Ascii("Z"))
    THEN [p EXCEPT !.currParserState = PARSER_WAITING]
  ELSE [p EXCEPT !.currCmd[p.currCmdIndex + 1] = c,
                 !.currCmdIndex = @ + 1]

\* currParamkVal = -1 * currParamkVal, if the parameter had a minus sign.
ApplySign(p, k) ==
  IF p.currParamNegative
    THEN [p EXCEPT !.currParamVal[k] = Int16(-1 * @)]
    ELSE p

\* PARSER_PARAMk, k = 1 .. 5: the characters of parameter k.  (In
\* PARSER_PARAM5 a separator is tested as any other character.)
ParseParam(p, c, k) ==
  IF (c = SEP_CHAR) /\ (k < 5)
    THEN [ApplySign(p, k) EXCEPT !.currParserState = PARSER_PARAM1 + k,
                                 !.currParamIndex = 0,
                                 !.currParamNegative = FALSE]
  ELSE IF c = END_CHAR
    THEN [ApplySign(p, k) EXCEPT !.currParserState = PARSER_EXECUTE]
  ELSE IF (p.currParamIndex = 0) /\ (c = "-")
    THEN [p EXCEPT !.currParamNegative = TRUE,
                   !.currParamIndex = @ + 1]
  ELSE IF (p.currParamIndex >= MAX_PARAM_LENGTH) \/ (Ascii(c) < Ascii("0")) \/ (Ascii(c) > Ascii("9"))
    THEN [p EXCEPT !.currParserState = PARSER_WAITING]
  ELSE [p EXCEPT !.currParamVal[k] = Int16((@ * 10) + (Ascii(c) - Ascii("0"))),
                 !.currParamIndex = @ + 1]

\* The state chain of loop_Parser for the byte c.
ParseChar(p, c) ==
  IF p.currParserState = PARSER_WAITING THEN ParseWaiting(p, c)
  ELSE IF p.currParserState = PARSER_COMMAND THEN ParseCommand(p, c)
  ELSE ParseParam(p, c, p.currParserState - PARSER_PARAM1 + 1)

(***************************************************************************)
(* Command texts with the command each is to be read as.                   *)
(***************************************************************************)
WellFormed ==
  { [text |-> <<"<", "F", "W", ",", "3", ">">>,
     cmd |-> "FW", p |-> <<3, 0, 0, 0, 0>>],
    [text |-> <<"<", "S", "T", ">">>,
     cmd |-> "ST", p |-> <<0, 0, 0, 0, 0>>],
    [text |-> <<"<", "W", "Y", ",", "-", "1", ">">>,
     cmd |-> "WY", p |-> <<-1, 0, 0, 0, 0>>],
    [text |-> <<"<", "S", "V", ",", "0", ",", "4", "0", ",", "-", "6", "0", ",", "0", ",", "2", "0", ">">>,
     cmd |-> "SV", p |-> <<0, 40, -60, 0, 20>>] }

WellFormedTexts == {w.text : w \in WellFormed}

\* The command a text of WellFormed is to be read as.
Meaning(text) ==
  LET w == CHOOSE w \in WellFormed : w.text = text
  IN  [cmd |-> w.cmd, p |-> w.p]

IsPrefix(s, u) == Len(s) <= Len(u) /\ SubSeq(u, 1, Len(s)) = s

\* History of the byte c being read in parser state p, which becomes p1.
IoFeed(i, p, p1, c) ==
  LET text == Append(i.consumed, c)
      tail == Append(i.tail, c)
  IN  [i EXCEPT
         !.fed = @ + 1,
         !.consumed = IF p1.currParserState \in {PARSER_WAITING, PARSER_EXECUTE}
                        THEN << >> ELSE text,
         !.tail = IF c = START_CHAR THEN << c >>
                  ELSE IF (i.tail # << >>) /\ (\E u \in WellFormedTexts : IsPrefix(tail, u))
                    THEN tail ELSE << >>,
         !.executed = (p1.currParserState = PARSER_EXECUTE),
         !.disp = IF p1.currParserState = PARSER_EXECUTE
                    THEN Append(@, [cmd |-> CmdName(p1.currCmd),
                                    p |-> p1.currParamVal,
                                    text |-> text])
                    ELSE @]

\* Faulty variant: the handler does not clear the parser state.
Read_NoReset(c, i) ==
  \E p1 \in {ParseChar(parser, c)} :
    /\ io' = IoFeed(i, parser, p1, c)
    /\ parser' = p1
    /\ IF p1.currParserState = PARSER_EXECUTE
         THEN Becomes(Execute(Machine, CmdName(p1.currCmd), p1.currParamVal))
         ELSE UNCHANGED <<seq, out, hist>>

\* loop_Parser with the byte c available: the state chain, then the command
\* handler if the byte completed a command.  i: the input history before c.
Read(c, i) ==
  \E p1 \in {ParseChar(parser, c)} :
    /\ io' = IoFeed(i, parser, p1, c)
    /\ IF p1.currParserState = PARSER_EXECUTE
         THEN /\ Becomes(Execute(Machine, CmdName(p1.currCmd), p1.currParamVal))
              /\ parser' = [p1 EXCEPT !.currParserState = PARSER_WAITING]
         ELSE /\ UNCHANGED <<seq, out, hist>>
              /\ parser' = p1

\* The machine after loop_Parser has read a byte that took the parser to p1:
\* the command handler runs if the byte completed a command.
Parsed(m, p1) ==
  IF p1.currParserState = PARSER_EXECUTE
    THEN Execute(m, CmdName(p1.currCmd), p1.currParamVal)
    ELSE m

\* Bytes arrive on the serial port: a whole command text is in the receive
\* buffer (io.pending) before loop() runs again.
Receive(text) ==
  /\ Len(io.done) < MaxCmds
  /\ io' = [io EXCEPT !.sending = text, !.pending = @ \o text, !.done = Append(@, text)]
  /\ UNCHANGED <<seq, out, hist, parser>>

\* One turn of loop(), dt milliseconds after the last: loop_Parser reads one
\* byte if softwareSerial.available() > 0, then loop_Animation runs.
Loop(dt) ==
  /\ dt \in StepsFrom(seq)
  /\ IF io.pending = << >>
       THEN /\ UNCHANGED <<parser, io>>
            /\ Update(Machine, dt)
       ELSE \E p1 \in {ParseChar(parser, Head(io.pending))} :
              /\ io' = IoFeed([io EXCEPT !.pending = Tail(@)], parser, p1, Head(io.pending))
              /\ parser' = IF p1.currParserState = PARSER_EXECUTE
                             THEN [p1 EXCEPT !.currParserState = PARSER_WAITING]
                             ELSE p1
              /\ \E m \in {Parsed(Machine, p1)} : Update(m, dt)

\* Free input: any byte of Bytes arrives.
Bytes == {"<", ">", ",", "-", "3", "S", "T", "x"}

Feed(c) ==
  /\ io.fed < MaxBytes
  /\ Read(c, io)

NextParser == \E c \in Bytes : Feed(c)

ParserSpec == Init /\ [][NextParser]_vars

\* Scripted input: command texts sent whole, with bytes that are not "<"
\* before, between and after them.
NoiseBytes == {">", ",", "-", "3", "S", "T", "x", "+", " "}

SendNoise(c) ==
  /\ io.pending = << >>
  /\ io.noise < MaxNoise
  /\ Read(c, [io EXCEPT !.noise = @ + 1])

StartText(text) ==
  /\ io.pending = << >>
  /\ Len(io.done) < MaxCmds
  /\ Read(Head(text), [io EXCEPT !.sending = text, !.pending = Tail(text), !.noise = 0])

SendPending ==
  /\ io.pending # << >>
  /\ Read(Head(io.pending),
          [io EXCEPT !.pending = Tail(@),
                     !.done = IF Len(io.pending) = 1 THEN Append(@, io.sending) ELSE @])

NextNoise ==
  \/ \E c \in NoiseBytes : SendNoise(c)
  \/ \E text \in WellFormedTexts : StartText(text)
  \/ SendPending

NoiseSpec == Init /\ [][NextNoise]_vars

\* Scripted input while animations are played: texts sent whole - commands
\* the handler knows, commands with a code it does not know, commands cut
\* short by a byte the parser rejects - with bytes that are not "<" between
\* them, and updates of loop_Animation at any moment.
SerialCommands ==
  { [text |-> <<"<", "O", "K", ">">>, cmd |-> "OK", p |-> <<0, 0, 0, 0, 0>>],
    [text |-> <<"<", "S", "T", ">">>, cmd |-> "ST", p |-> <<0, 0, 0, 0, 0>>],
    [text |-> <<"<", "S", "I", ">">>, cmd |-> "SI", p |-> <<0, 0, 0, 0, 0>>],
    [text |-> <<"<", "W", "Y", ",", "-", "1", ">">>,
     cmd |-> "WY", p |-> <<-1, 0, 0, 0, 0>>] }

UnknownCommands ==
  { <<"<", "Z", "Z", ">">>, <<"<", "T", "S", ",", "3", ">">> }

AbortedCommands ==
  { <<"<", "S", "x", ">">>, <<"<", "S", "T", ",", "3", "x", ">">>, <<"<", "S", "<">> }

SerialTexts == {w.text : w \in SerialCommands} \cup UnknownCommands \cup AbortedCommands

\* The command a text of SerialCommands is to be read as.
SerialMeaning(text) ==
  LET w == CHOOSE w \in SerialCommands : w.text = text
  IN  [cmd |-> w.cmd, p |-> w.p]

NextSerial ==
  \/ \E c \in NoiseBytes : SendNoise(c)
  \/ \E text \in SerialTexts : StartText(text)
  \/ SendPending
  \/ \E dt \in TimeSteps : Tick(dt)

SerialSpec == Init /\ [][NextSerial]_vars

\* The control loop: command texts arrive whole, loop() turns.
NextLoop ==
  \/ \E text \in {w.text : w \in SerialCommands} : Receive(text)
  \/ \E dt \in TimeSteps : Loop(dt)

LoopSpec == Init /\ [][NextLoop]_vars

\* Round trip: the decimal text of an integer n, sent as the second
\* parameter of <SV,0,n,0,0,0>.
RoundTripInputs ==
  { -999999, -100000, -99999, -32769, -32768, -1000, -60, -1, 0, 7, 40,
    1411, 32767, 32768, 65536, 99999, 100000, 999999 }

RECURSIVE Decimal(_)
Decimal(n) ==
  IF n < 10 THEN << Digits[n + 1] >>
            ELSE Append(Decimal(n \div 10), Digits[(n % 10) + 1])

Format(n) == IF n < 0 THEN << "-" >> \o Decimal(-n) ELSE Decimal(n)

ServoText(n) ==
  << "<", "S", "V", ",", "0", "," >> \o Format(n)
     \o << ",", "0", ",", "0", ",", "0", ">" >>

RoundTripInit ==
  /\ seq = setup_Animation
  /\ out = << Line("OK", "") >>
  /\ hist = InitHist
  /\ parser = setup_Parser
  /\ \E n \in RoundTripInputs :
        io = [InitIo EXCEPT !.n = n, !.sending = ServoText(n), !.pending = ServoText(n)]

RoundTripSpec == RoundTripInit /\ [][SendPending]_vars

\* Commands in succession: each text is sent whole after the last; the texts
\* differ in their code and in the number and the sign of their parameters,
\* and some are cut short by a byte the parser rejects.
SuccessiveCommands ==
  { [text |-> <<"<", "S", "V", ",", "7", ",", "4", "0", ",", "-", "6", "0", ",", "3", ",", "2", "0", ">">>,
     code |-> <<"S", "V">>, p |-> <<7, 40, -60, 3, 20>>],
    [text |-> <<"<", "W", "Y", ",", "-", "1", ">">>,
     code |-> <<"W", "Y">>, p |-> <<-1, 0, 0, 0, 0>>],
    [text |-> <<"<", "F", "W", ",", "3", ">">>,
     code |-> <<"F", "W">>, p |-> <<3, 0, 0, 0, 0>>],
    [text |-> <<"<", "F", "W", ",", ">">>,
     code |-> <<"F", "W">>, p |-> <<0, 0, 0, 0, 0>>],
    [text |-> <<"<", "S", "T", ">">>,
     code |-> <<"S", "T">>, p |-> <<0, 0, 0, 0, 0>>],
    [text |-> <<"<", "Z", "Z", ">">>,
     code |-> <<"Z", "Z">>, p |-> <<0, 0, 0, 0, 0>>] }

CutShortCommands ==
  { <<"<", "S", "V", ",", "7", ",", "4", "0", ",", "-", "6", "x">>,
    <<"<", "L", "X", ",", "3", "3", ",", "-", "x">>,
    <<"<", "B", "x">> }

SuccessiveTexts == {w.text : w \in SuccessiveCommands} \cup CutShortCommands

NextSuccessive ==
  \/ \E text \in SuccessiveTexts : StartText(text)
  \/ SendPending

SuccessiveSpec == Init /\ [][NextSuccessive]_vars

(***************************************************************************)
(* Helpers of the properties.                                              *)
(***************************************************************************)
\* The completion lines written for command id.
NotifOf(id) == {i \in DOMAIN hist.notif : hist.notif[i].id = id}

NormalNotifOf(id) == {i \in NotifOf(id) : ~hist.notif[i].abn}

Neutral == JointsOf(standStraightAnim[2])

(***************************************************************************)
(* C1.  Every command that was started and is no longer the one being      *)
(* played (another command has been started in its place) has had a        *)
(* completion line written for it: no started animation is replaced        *)
(* silently.                                                               *)
(***************************************************************************)
C1_ReplacedIsNotified ==
  \A id \in hist.promoted \ {hist.animId} : NotifOf(id) # {}

(***************************************************************************)
(* C2.  For each command that was started, at most one completion line     *)
(* ("<TAG>" or "<TAG,-1>") is written in total.                            *)
(***************************************************************************)
C2_AtMostOneNotification ==
  \A id \in hist.promoted : Cardinality(NotifOf(id)) <= 1

(***************************************************************************)
(* C8.  A "<TAG,-1>" line is written only at a tick at which an animation  *)
(* was in progress and is abandoned; none is written for an animation that *)
(* already ended or when nothing was playing.                              *)
(***************************************************************************)
C8_InterruptedOnlyInProgress ==
  \A i \in DOMAIN hist.notif : hist.notif[i].abn => hist.notif[i].inprog


(***************************************************************************)
(* The send-and-wait client: it sends an animation command with a finite   *)
(* count only when the normal response of the command it sent last has     *)
(* been written since it sent it.                                          *)
(***************************************************************************)
SendWaitCommands ==
  {[cmd |-> "FW", p |-> <<n, 0, 0, 0, 0>>] : n \in 0 .. MaxLoops}
  \cup {[cmd |-> "WY", p |-> <<1, 0, 0, 0, 0>>], [cmd |-> "ST", p |-> <<0, 0, 0, 0, 0>>],
        [cmd |-> "SI", p |-> <<0, 0, 0, 0, 0>>]}
  \cup {[cmd |-> "SV", p |-> <<0, 40, -60, 0, 20>>],
        [cmd |-> "SV", p |-> <<100, -30, 0, 50, 0>>]}

Answered ==
  IF hist.sent = << >> THEN TRUE
  ELSE \E i \in (hist.mark + 1) .. Len(out) :
          out[i] = Line(hist.sent[Len(hist.sent)].cmd, "")

ClientSend(c) ==
  /\ Answered
  /\ Dispatch(c)

NextSendWait ==
  \/ \E c \in SendWaitCommands : ClientSend(c)
  \/ \E dt \in TimeSteps : Tick(dt)

SendWaitSpec == Init /\ [][NextSendWait]_vars /\ WF_vars(TickSome)

\* The same client, sending the commands of LongCommands.
NextLongSendWait ==
  \/ \E c \in LongCommands : ClientSend(c)
  \/ \E dt \in LateSteps : LateTick(dt)

LongSendWaitSpec == Init /\ [][NextLongSendWait]_vars /\ WF_vars(LateTickSome)

IsNormalLine(l) == l.param = ""

IsNormalNotif(n) == ~n.abn

\* The normal responses written after the boot line, and their history.
NormalLines == SelectSeq(Tail(out), IsNormalLine)

NormalNotifs == SelectSeq(hist.notif, IsNormalNotif)

(***************************************************************************)
(* C3.  Send-and-wait: when each command is sent only after the normal     *)
(* response of the previous one, the normal responses written after the    *)
(* boot line are exactly those of the commands sent, one per command and   *)
(* in the order sent (the last command's may still be outstanding); when   *)
(* the last response has been written no animation is in progress and the  *)
(* queue slot is empty; and every command sent is eventually answered.     *)
(***************************************************************************)
C3_Responses ==
  /\ Len(NormalLines) = Len(NormalNotifs)
  /\ Len(NormalNotifs) \in {Len(hist.sent) - 1, Len(hist.sent)}
  /\ \A i \in DOMAIN NormalNotifs :
        /\ NormalLines[i] = Line(hist.sent[i].cmd, "")
        /\ NormalNotifs[i].id = i
  /\ Len(NormalNotifs) = Len(hist.sent) =>
        ~seq.animInProgress /\ seq.nextAnim = NULL

C3_SendAndWait ==
  /\ [] C3_Responses
  /\ \A k \in 1 .. (MaxCmds + 1) :
        (Len(hist.sent) >= k) ~> (Len(NormalNotifs) >= k)

\* Two commands have been sent and answered, the second one a walk.
C3_Witness ==
  /\ Len(hist.sent) = 2 /\ Len(NormalNotifs) = 2
  /\ hist.sent[2].cmd = "FW"
  /\ out = << Line("OK", ""), Line(hist.sent[1].cmd, ""), Line("FW", "") >>


(***************************************************************************)
(* More helpers of the properties.                                         *)
(***************************************************************************)
\* What the command c = [cmd, param] of sent puts in the queue slot.
SlotOf(c) ==
  IF c.cmd \in NamedCmds
    THEN [anim |-> {NamedAnim(c.cmd)[1]}, finish |-> NamedAnim(c.cmd)[2],
          loops |-> NumTimes(c.param)]
  ELSE IF c.cmd = "SV"
    THEN [anim |-> {"setServosAnim1", "setServosAnim2"}, finish |-> NULL, loops |-> 1]
    ELSE [anim |-> {"standStraightAnim"}, finish |-> NULL, loops |-> 1]

\* The step is an update of loop_Animation that passed the update-period check.
ProcessedTick ==
  /\ hist'.sent = hist.sent
  /\ seq'.sinceLastAnimUpdate = 0
  /\ vars' # vars

\* The keyframes 1..NumOfFrames of a table, in order.
FramesOf(anim) ==
  [f \in 1 .. NumOfFrames(AnimData(setup_Animation, anim)) |-> <<anim, f>>]

RECURSIVE Repeat(_, _)
Repeat(s, n) == IF n <= 0 THEN << >> ELSE s \o Repeat(s, n - 1)

\* n passes of the command's animation, then its finish animation once.
ExpectedPlayed(cmd, n) ==
  Repeat(FramesOf(NamedAnim(cmd)[1]), n) \o FramesOf(NamedAnim(cmd)[2])

(***************************************************************************)
(* C4.  Queue overwrite: a command whose queued animation is overwritten   *)
(* by a later command before it was started is never started, never plays  *)
(* and never gets a completion line; the queue slot holds what the last    *)
(* dispatched command asked for, what is being played is the animation of  *)
(* the command that was started (for <SV>, with that command's keyframe),  *)
(* and every completion line carries the tag of a command that was         *)
(* started.                                                                *)
(***************************************************************************)
C4_QueueOverwrite ==
  /\ \A id \in hist.discarded :
        /\ id \notin hist.promoted
        /\ id # hist.animId /\ id # hist.nextId
        /\ NotifOf(id) = {}
  /\ (seq.nextAnim # NULL /\ hist.nextId \notin hist.promoted) =>
        /\ hist.nextId = Len(hist.sent)
        /\ seq.nextAnim \in SlotOf(hist.sent[hist.nextId]).anim
        /\ seq.nextFinishAnim = SlotOf(hist.sent[hist.nextId]).finish
        /\ seq.nextAnimNumLoops = SlotOf(hist.sent[hist.nextId]).loops
        /\ seq.nextAnimCompleteStr = hist.sent[hist.nextId].cmd
        /\ hist.sent[hist.nextId].cmd = "SV" =>
              AnimData(seq, seq.nextAnim)[2][TWEEN_TIME_VALUE + 1] =
                 TweenTime(hist.sent[hist.nextId].param)
  /\ hist.animId # 0 =>
        /\ hist.sent[hist.animId].cmd = "SV" =>
              AnimData(seq, seq.currAnim)[2][TWEEN_TIME_VALUE + 1] =
                 TweenTime(hist.sent[hist.animId].param)
        /\ seq.animCompleteStr = hist.sent[hist.animId].cmd
        /\ seq.currAnim \in SlotOf(hist.sent[hist.animId]).anim
                              \cup {SlotOf(hist.sent[hist.animId]).finish}
  /\ \A i \in 2 .. Len(out) :
        \/ out[i].str = "--"
        \/ \E id \in hist.promoted : hist.sent[id].cmd = out[i].str

\* The first command was overwritten in the queue; the second was started
\* and has completed.
C4_Witness ==
  /\ hist.discarded = {1}
  /\ hist.promoted = {2}
  /\ NormalNotifOf(2) # {}

(***************************************************************************)
(* C5.  Loop-and-finish: a walk command (an animation with a finish        *)
(* animation) given count N >= 1, with no command dispatched after it,     *)
(* resolves the keyframes of its animation in order exactly N times, then  *)
(* those of the finish animation once, and then writes exactly one normal  *)
(* completion line; before the finish animation has ended no line is       *)
(* written for it.                                                         *)
(***************************************************************************)
C5_LoopAndFinish ==
  LET k == hist.animId IN
  (k # 0 /\ k = Len(hist.sent)) =>
    LET c == hist.sent[k] IN
    (c.cmd \in {"FW", "BW"} /\ c.param >= 1) =>
      LET expected == ExpectedPlayed(c.cmd, c.param) IN
      IF NotifOf(k) = {}
        THEN IsPrefix(hist.played, expected) /\ hist.played # expected
        ELSE /\ hist.played = expected
             /\ Cardinality(NotifOf(k)) = 1
             /\ NormalNotifOf(k) = NotifOf(k)
             /\ out[Len(out)] = Line(c.cmd, "")
             /\ ~seq.animInProgress

\* <FW,2> has played two passes and the finish animation and is answered.
C5_Witness ==
  /\ hist.animId # 0 /\ hist.animId = Len(hist.sent)
  /\ hist.sent[hist.animId] = [cmd |-> "FW", param |-> 2]
  /\ Len(hist.played) = 18
  /\ out[Len(out)] = Line("FW", "")

(***************************************************************************)
(* C6.  Interruption notification: the first processed tick after          *)
(* StopAnimImmediate was called while an animation with tag T was in       *)
(* progress writes exactly the line "<T,-1>", starts the queued animation  *)
(* instead (no further keyframe of the abandoned one is resolved), and the *)
(* abandoned command has that one line only: no normal "<T>" ever follows. *)
(***************************************************************************)
C6_Step ==
  (ProcessedTick /\ seq.interruptInProgressAnim /\ seq.animInProgress) =>
    /\ out' = Append(out, Line(seq.animCompleteStr, ",-1"))
    /\ hist'.notif = Append(hist.notif,
                            [id |-> hist.animId, abn |-> TRUE, inprog |-> TRUE])
    /\ hist'.animId # hist.animId
    /\ hist'.played = << >>
    /\ seq'.currAnim = seq.nextAnim
    /\ seq'.finishAnim = seq.nextFinishAnim
    /\ seq'.animCompleteStr = seq.nextAnimCompleteStr
    /\ seq'.targetFrame = 1
    /\ ~seq'.interruptInProgressAnim

C6_Abandoned ==
  \A id \in hist.abandoned :
    /\ Cardinality(NotifOf(id)) = 1
    /\ NormalNotifOf(id) = {}
    /\ id # hist.animId /\ id # hist.nextId

C6_InterruptNotification == [][C6_Step /\ C6_Abandoned']_vars

\* A walk was abandoned and the stand-straight animation of <SI> that
\* replaced it has completed.
C6_Witness ==
  /\ hist.abandoned = {1}
  /\ hist.sent[1].cmd = "FW"
  /\ Len(out) = 3
  /\ out[2] = Line("FW", ",-1")
  /\ out[3] = Line("SI", "")

(***************************************************************************)
(* C7.  Interruption origin: the tick that handles an immediate stop sets  *)
(* the interpolation origin (start) to the joint positions the joints had  *)
(* at that tick, and the started animation's keyframe interpolates from    *)
(* that origin: at that tick the joints stay where they are, and at every  *)
(* later update within the same keyframe the origin is unchanged and each  *)
(* joint with a target is at the interpolated position from the origin.    *)
(***************************************************************************)
C7_Step ==
  /\ (ProcessedTick /\ seq.interruptInProgressAnim) =>
        /\ seq'.start = seq.curr
        /\ TargetRow(seq')[TWEEN_TIME_VALUE + 1] > 0 => seq'.curr = seq.curr
  /\ (ProcessedTick /\ ~seq.interruptInProgressAnim
        /\ seq.animInProgress /\ seq'.animInProgress
        /\ hist'.animId = hist.animId
        /\ seq'.currAnim = seq.currAnim /\ seq'.targetFrame = seq.targetFrame
        /\ TargetRow(seq')[TWEEN_TIME_VALUE + 1] > 0) =>
        /\ seq'.start = seq.start
        /\ \A j \in Joints :
              TargetRow(seq')[j + 1] >= 0 =>
                seq'.curr[j] = Lerp(seq.start[j], TargetRow(seq')[j + 1],
                                    seq'.timeInCurrFrame,
                                    TargetRow(seq')[TWEEN_TIME_VALUE + 1], 0)

C7_InterruptOrigin == [][C7_Step]_vars

\* A walk was interrupted half way through its first keyframe (left foot at
\* 1335, between 1410 and 1260); the stand-straight animation is half way
\* from there to 1410.
C7_Witness ==
  /\ seq.animInProgress
  /\ seq.animCompleteStr = "SI"
  /\ seq.start[LEFT_FOOT_VALUE] = 1335
  /\ seq.curr[LEFT_FOOT_VALUE] = 1372

(***************************************************************************)
(* C9.  While an animation is in progress and the interrupt flag is clear, *)
(* no step starts the queued animation: an update leaves the queue slot    *)
(* and the playing command as they are and writes no ",-1" line.  A        *)
(* command queued during an animation is started (without an interrupt)    *)
(* only when that animation is not in progress any more, has had its       *)
(* normal completion line and, if it has a finish animation, has played it *)
(* to its last keyframe; the step that starts it writes no line.           *)
(***************************************************************************)
C9_Step ==
  /\ (seq.animInProgress /\ ~seq.interruptInProgressAnim) =>
        /\ hist'.animId = hist.animId
        /\ seq'.animCompleteStr = seq.animCompleteStr
        /\ (hist'.sent = hist.sent /\ seq.nextAnim # NULL) =>
              /\ seq'.nextAnim = seq.nextAnim
              /\ seq'.nextFinishAnim = seq.nextFinishAnim
              /\ seq'.nextAnimNumLoops = seq.nextAnimNumLoops
              /\ seq'.nextAnimCompleteStr = seq.nextAnimCompleteStr
              /\ hist'.nextId = hist.nextId
        /\ \A i \in DOMAIN hist'.notif :
              i > Len(hist.notif) => ~hist'.notif[i].abn
  /\ (hist'.animId # hist.animId /\ hist.nextDuring # 0
        /\ ~seq.interruptInProgressAnim) =>
        /\ hist.nextDuring = hist.animId
        /\ ~seq.animInProgress
        /\ out' = out /\ hist'.notif = hist.notif
        /\ NormalNotifOf(hist.animId) # {}
        /\ LET fin == SlotOf(hist.sent[hist.animId]).finish
           IN  fin # NULL =>
                 /\ hist.played # << >>
                 /\ hist.played[Len(hist.played)] =
                       <<fin, NumOfFrames(AnimData(seq, fin))>>

C9_NoPromotionInProgress == [][C9_Step]_vars

\* <ST> was dispatched while an endless walk was in progress; it was started
\* after the walk had completed normally.
C9_Witness ==
  /\ hist.animId = 2 /\ hist.animDuring = 1
  /\ hist.sent[1] = [cmd |-> "FW", param |-> -1]
  /\ hist.sent[2].cmd = "ST"
  /\ out = << Line("OK", ""), Line("FW", "") >>
  /\ seq.animInProgress

(***************************************************************************)
(* C10.  Stop liveness: whenever <ST> is the last command dispatched - in  *)
(* any state: idle, during a finite or endless animation or a finish       *)
(* animation - then, unless a further command is dispatched, eventually    *)
(* "<ST>" has been written, no animation is in progress, the queue slot is *)
(* empty and the four joints are at the stand-straight pose.               *)
(***************************************************************************)
Stopped(k) ==
  /\ NormalNotifOf(k) # {}
  /\ out[Len(out)] = Line("ST", "")
  /\ ~seq.animInProgress
  /\ seq.nextAnim = NULL
  /\ seq.curr = Neutral /\ seq.servo = Neutral

C10_StopLiveness ==
  \A k \in 1 .. (MaxCmds + 1) :
    (Len(hist.sent) = k /\ hist.sent[k].cmd = "ST")
      ~> (Len(hist.sent) > k \/ Stopped(k))

\* <ST> stopped an endless walk: the walk and then <ST> were answered.
C10_Witness ==
  /\ Len(hist.sent) = 2
  /\ hist.sent[1] = [cmd |-> "FW", param |-> -1]
  /\ hist.sent[2].cmd = "ST"
  /\ out = << Line("OK", ""), Line("FW", ""), Line("ST", "") >>
  /\ Stopped(2)

(***************************************************************************)
(* C11.  Finish animation before hand-over: when a command whose animation *)
(* has a finish animation stops being the one played because a command     *)
(* with another animation is started, and it was not abandoned by an       *)
(* immediate stop, the last keyframe resolved for it is the last keyframe  *)
(* of its finish animation.                                                *)
(***************************************************************************)
C11_Step ==
  (/\ hist.animId # 0
   /\ hist'.animId # hist.animId
   /\ SlotOf(hist.sent[hist.animId]).finish # NULL
   /\ seq'.currAnim \notin SlotOf(hist.sent[hist.animId]).anim
   /\ hist.animId \notin hist'.abandoned) =>
     LET fin == SlotOf(hist.sent[hist.animId]).finish
     IN  /\ hist.played # << >>
         /\ hist.played[Len(hist.played)] = <<fin, NumOfFrames(AnimData(seq, fin))>>

C11_FinishBeforeHandOver == [][C11_Step]_vars


(***************************************************************************)
(* Helpers of the parser properties: the grammar                           *)
(*   "<" CODE ("," PARAM){0,5} ">",  CODE two upper-case letters,          *)
(*   PARAM an optional "-" and 1 to 6 digits.                              *)
(***************************************************************************)
IsUpper(c) == \E i \in DOMAIN UpperCase : UpperCase[i] = c

IsDigit(c) == \E i \in DOMAIN Digits : Digits[i] = c

\* The fields of s between its separators.
RECURSIVE Fields(_)
Fields(s) ==
  IF \E i \in DOMAIN s : s[i] = ","
    THEN LET i == CHOOSE i \in DOMAIN s : s[i] = "," /\ \A j \in 1 .. (i - 1) : s[j] # ","
         IN  << SubSeq(s, 1, i - 1) >> \o Fields(SubSeq(s, i + 1, Len(s)))
    ELSE << s >>

IsCode(s) == Len(s) = 2 /\ IsUpper(s[1]) /\ IsUpper(s[2])

IsParam(s) ==
  LET d == IF s # << >> /\ s[1] = "-" THEN Tail(s) ELSE s
  IN  Len(d) \in 1 .. 6 /\ \A i \in DOMAIN d : IsDigit(d[i])

Grammatical(text) ==
  /\ Len(text) >= 2
  /\ text[1] = "<" /\ text[Len(text)] = ">"
  /\ LET f == Fields(SubSeq(text, 2, Len(text) - 1))
     IN  /\ Len(f) \in 1 .. 6
         /\ IsCode(f[1])
         /\ \A k \in 2 .. Len(f) : IsParam(f[k])

(***************************************************************************)
(* C12.  Noise tolerance: when command texts are sent whole, with bytes    *)
(* other than "<" before, between and after them, the commands executed    *)
(* are exactly the texts sent, in order, each read as its code and         *)
(* parameters, from exactly its own bytes.                                 *)
(***************************************************************************)
C12_NoiseTolerance ==
  /\ Len(io.disp) = Len(io.done)
  /\ \A i \in DOMAIN io.disp :
        /\ io.disp[i].text = io.done[i]
        /\ [cmd |-> io.disp[i].cmd, p |-> io.disp[i].p] = Meaning(io.done[i])

\* "<FW,3>" and "<ST>" were sent with MaxNoise bytes of noise before,
\* between and after them.
C12_Witness ==
  /\ io.done = << <<"<", "F", "W", ",", "3", ">">>, <<"<", "S", "T", ">">> >>
  /\ io.noise = MaxNoise
  /\ io.fed = 10 + (3 * MaxNoise)
  /\ io.disp[1].cmd = "FW" /\ io.disp[1].p[1] = 3
  /\ io.disp[2].cmd = "ST"
  /\ hist.sent = << [cmd |-> "FW", param |-> 3], [cmd |-> "ST", param |-> 0] >>

(***************************************************************************)
(* C13.  Resynchronisation: whenever the bytes read from the last "<" on   *)
(* are a whole command text, the byte that ends it executes that command,  *)
(* whatever state the parser was in when the "<" arrived.                  *)
(***************************************************************************)
C13_Resynchronises ==
  io.tail \in WellFormedTexts =>
    /\ io.executed
    /\ [cmd |-> io.disp[Len(io.disp)].cmd, p |-> io.disp[Len(io.disp)].p]
          = Meaning(io.tail)

(***************************************************************************)
(* C14.  Parameter round trip: when the text <SV,0,n,0,0,0> with n in      *)
(* decimal has been read from the start state, exactly one command has     *)
(* been executed: SV with second parameter n (or n reduced to the width of *)
(* an int).                                                                *)
(***************************************************************************)
C14_RoundTrip ==
  (io.sending # << >> /\ io.pending = << >>) =>
    /\ Len(io.disp) = 1
    /\ io.disp[1].cmd = "SV"
    /\ io.disp[1].p \in {<<0, io.n, 0, 0, 0>>, <<0, Int16(io.n), 0, 0, 0>>}

(***************************************************************************)
(* C15.  Every command executed was read from a byte string of the         *)
(* grammar "<" CODE ("," PARAM){0,5} ">".                                  *)
(***************************************************************************)
C15_DispatchesAreGrammatical ==
  \A i \in DOMAIN io.disp : Grammatical(io.disp[i].text)


(***************************************************************************)
(* C16.  Loop count of a named animation command, as long as no command is *)
(* dispatched after it: with count 0 (the value of an absent parameter) or *)
(* 1 it resolves the keyframes of one pass, then those of its finish       *)
(* animation if it has one, and writes one normal completion line; with    *)
(* count N >= 1, N passes; with a count < 0 it is played as an endless     *)
(* loop: pass after pass, with no completion line.                         *)
(***************************************************************************)
C16_LoopCount ==
  LET k == hist.animId IN
  (k # 0 /\ k = Len(hist.sent) /\ hist.sent[k].cmd \in NamedCmds) =>
    LET c    == hist.sent[k]
        anim == NamedAnim(c.cmd)[1]
        fin  == NamedAnim(c.cmd)[2]
        passes == IF c.param = 0 THEN 1 ELSE c.param
        expected == Repeat(FramesOf(anim), passes)
                      \o (IF fin = NULL THEN << >> ELSE FramesOf(fin))
    IN  IF c.param < 0
          THEN /\ NotifOf(k) = {}
               /\ seq.animNumLoops = -1
               /\ seq.currAnim = anim
               /\ IsPrefix(hist.played, FramesOf(anim))
               /\ (hist.played = FramesOf(anim)) = (~seq.animInProgress)
               /\ ~seq.animInProgress => (seq.nextAnim = anim /\ seq.nextAnimNumLoops = -1)
          ELSE /\ seq.animNumLoops >= 0
               /\ IF NotifOf(k) = {}
                    THEN IsPrefix(hist.played, expected) /\ hist.played # expected
                    ELSE /\ hist.played = expected
                         /\ Cardinality(NotifOf(k)) = 1
                         /\ NormalNotifOf(k) = NotifOf(k)
                         /\ out[Len(out)] = Line(c.cmd, "")
                         /\ ~seq.animInProgress

\* <FW,0> has played one pass and the finish animation and is answered.
C16_Witness ==
  /\ hist.animId # 0 /\ hist.animId = Len(hist.sent)
  /\ hist.sent[hist.animId] = [cmd |-> "FW", param |-> 0]
  /\ hist.played = FramesOf("walkForwardAnim") \o FramesOf("walkEndAnim")
  /\ out[Len(out)] = Line("FW", "")

(***************************************************************************)
(* C17.  Infinite looping: while the command being played has a negative   *)
(* count and no command is dispatched after it, no completion line is      *)
(* written for it, each end of a pass puts the same animation, finish      *)
(* animation and tag in the queue with count -1, and passes keep ending    *)
(* and starting for ever.                                                  *)
(***************************************************************************)
Looping(k) ==
  /\ Len(hist.sent) = k /\ hist.animId = k
  /\ hist.sent[k].cmd \in NamedCmds
  /\ hist.sent[k].param < 0

PassEnd ==
  /\ ~seq.animInProgress
  /\ seq.nextAnim = seq.currAnim
  /\ seq.nextFinishAnim = seq.finishAnim
  /\ seq.nextAnimCompleteStr = seq.animCompleteStr
  /\ seq.nextAnimNumLoops = -1
  /\ hist.played = FramesOf(seq.currAnim)

C17_Loops ==
  \A k \in 1 .. Len(hist.sent) :
    Looping(k) =>
      /\ NotifOf(k) = {}
      /\ seq.animCompleteStr = hist.sent[k].cmd
      /\ seq.finishAnim = NamedAnim(hist.sent[k].cmd)[2]
      /\ ~seq.animInProgress => PassEnd

C17_InfiniteLooping ==
  /\ [] C17_Loops
  /\ \A k \in 1 .. (MaxCmds + 1) :
        /\ (Looping(k) /\ seq.animInProgress)
              ~> (Len(hist.sent) > k \/ (Looping(k) /\ PassEnd))
        /\ (Looping(k) /\ PassEnd)
              ~> (Len(hist.sent) > k \/ (Looping(k) /\ seq.animInProgress))

\* <WY,-1>, the last command sent, has ended a pass and is queued again;
\* nothing but the boot line has been written.
C17_Witness ==
  /\ Len(hist.sent) = 1
  /\ hist.sent[1] = [cmd |-> "WY", param |-> -1]
  /\ Looping(1) /\ PassEnd
  /\ out = << Line("OK", "") >>

(***************************************************************************)
(* C18.  No division by zero: no update interpolates a keyframe of         *)
(* duration 0, that is, no update ends with an animation in progress whose *)
(* target keyframe has duration 0 (the interpolation of that update has    *)
(* divided the time in the keyframe by the duration).                      *)
(***************************************************************************)
C18_NoDivisionByZero ==
  ~ ( /\ seq.animInProgress
      /\ seq.sinceLastAnimUpdate = 0
      /\ TargetRow(seq)[TWEEN_TIME_VALUE + 1] = 0 )

(***************************************************************************)
(* C19 (amended).  A keyframe of duration 0 does not stall: unless an       *)
(* immediate stop abandons the animation at that update, the first update  *)
(* after the one that made it the target keyframe resolves it: the joints  *)
(* with a value are at the keyframe's values and the frame index has       *)
(* advanced; for the single keyframe of <SV,0,...> the completion line is  *)
(* written at that update.                                                 *)
(***************************************************************************)
C19_Step ==
  (/\ ProcessedTick
   /\ seq.animInProgress
   /\ ~StartCondition(seq)
   /\ TargetRow(seq)[TWEEN_TIME_VALUE + 1] = 0) =>
     LET row == TargetRow(seq) IN
     /\ hist'.played = Append(hist.played, <<seq.currAnim, seq.targetFrame>>)
     /\ \A j \in Joints : row[j + 1] >= 0 => seq'.start[j] = row[j + 1]
     /\ seq.animCompleteStr = "SV" =>
           /\ ~seq'.animInProgress
           /\ seq'.targetFrame = seq.targetFrame + 1
           /\ \A j \in Joints :
                 row[j + 1] >= 0 => (seq'.curr[j] = row[j + 1] /\ seq'.servo[j] = row[j + 1])
           /\ out' = Append(out, Line("SV", ""))

C19_ZeroDurationResolves == [][C19_Step]_vars

(***************************************************************************)
(* C19 without the exception: whatever is dispatched in between, the first *)
(* update after the one that made a keyframe of duration 0 the target      *)
(* resolves it, and for <SV,0,...> writes the completion line "<SV>".      *)
(***************************************************************************)
C19_Step_Unconditional ==
  (/\ ProcessedTick
   /\ seq.animInProgress
   /\ TargetRow(seq)[TWEEN_TIME_VALUE + 1] = 0) =>
     /\ hist'.played = Append(hist.played, <<seq.currAnim, seq.targetFrame>>)
     /\ seq.animCompleteStr = "SV" => out' = Append(out, Line("SV", ""))

C19_ZeroDurationAlwaysResolves == [][C19_Step_Unconditional]_vars

\* <SV,0,40,-60,0,20> has been started and then resolved: the joints are at
\* its values and "<SV>" is written.
C19_Witness ==
  /\ hist.sent = << [cmd |-> "SV", param |-> 0] >>
  /\ hist.played = << <<"setServosAnim1", 1>> >>
  /\ seq.curr = (LEFT_HIP_VALUE :> 1620) @@ (LEFT_FOOT_VALUE :> 1470)
                  @@ (RIGHT_HIP_VALUE :> 1500) @@ (RIGHT_FOOT_VALUE :> 1485)
  /\ out = << Line("OK", ""), Line("SV", "") >>

(***************************************************************************)
(* C20.  Absent-joint semantics: a joint whose value in the target         *)
(* keyframe is absent (negative) keeps its position at every update that   *)
(* interpolates the keyframe and at the update that resolves it, while     *)
(* every joint with a value is at that value when the keyframe is          *)
(* resolved.                                                               *)
(***************************************************************************)
C20_Step ==
  /\ (ProcessedTick /\ StartCondition(seq)) =>
       \A j \in Joints :
         TargetRow(seq')[j + 1] < 0 =>
           (seq'.curr[j] = seq.curr[j] /\ seq'.servo[j] = seq.servo[j])
  /\ (ProcessedTick /\ seq.animInProgress /\ ~StartCondition(seq)) =>
    LET row == TargetRow(seq) IN
    IF hist'.played # hist.played
      THEN \A j \in Joints :
             IF row[j + 1] >= 0 THEN seq'.start[j] = row[j + 1]
                                ELSE seq'.start[j] = seq.curr[j]
      ELSE \A j \in Joints :
             row[j + 1] < 0 =>
               /\ seq'.curr[j] = seq.curr[j]
               /\ seq'.servo[j] = seq.servo[j]
               /\ seq'.start[j] = seq.start[j]

C20_AbsentJoint == [][C20_Step]_vars

\* <SV,0,40,-60,0,20> put the left foot at 1470; <SV,100,-30,1411,50,0>,
\* whose left-foot value is -1, has moved the other joints and left it there.
C20_Witness ==
  /\ hist.sent = << [cmd |-> "SV", param |-> 0], [cmd |-> "SV", param |-> 100] >>
  /\ Len(hist.notif) = 2
  /\ ~seq.animInProgress
  /\ AnimData(seq, seq.currAnim)[2][LEFT_FOOT_VALUE + 1] = -1
  /\ seq.curr = (LEFT_HIP_VALUE :> 1550) @@ (LEFT_FOOT_VALUE :> 1470)
                  @@ (RIGHT_HIP_VALUE :> 1450) @@ (RIGHT_FOOT_VALUE :> 1465)



(***************************************************************************)
(* C21.  Only an immediate stop replaces an animation in progress: an      *)
(* update of loop_Animation starts another command in the place of one     *)
(* that is in progress only if StopAnimImmediate was called since the      *)
(* previous update; after commands that only queue an animation (named     *)
(* animations, <ST>, <SV>) the update leaves the command in progress, its  *)
(* animation and its tag as they are and writes no ",-1" line.             *)
(***************************************************************************)
C21_Step ==
  (ProcessedTick /\ seq.animInProgress) =>
    /\ (hist'.animId # hist.animId) => hist.immediate
    /\ ~hist.immediate =>
          /\ hist'.animId = hist.animId
          /\ hist'.abandoned = hist.abandoned
          /\ seq'.animCompleteStr = seq.animCompleteStr
          /\ seq'.currAnim \in {seq.currAnim, seq.finishAnim}
          /\ \A i \in DOMAIN hist'.notif :
                i > Len(hist.notif) => ~hist'.notif[i].abn

C21_OnlyImmediateStopReplaces == [][C21_Step]_vars

\* <ST> was dispatched during an endless wobble and an update has been made
\* since: the wobble is still in progress, with <ST> in the queue slot.
C21_Witness ==
  /\ hist.sent = << [cmd |-> "WY", param |-> -1], [cmd |-> "ST", param |-> 0] >>
  /\ seq.animInProgress /\ seq.sinceLastAnimUpdate = 0
  /\ hist.animId = 1 /\ hist.nextId = 2
  /\ seq.currAnim = "wobbleLeftAnim" /\ seq.nextAnim = "standStraightAnim"
  /\ hist.abandoned = {} /\ out = << Line("OK", "") >>


(***************************************************************************)
(* C22.  Tag correlation: every normal completion line carries the         *)
(* two-character code of the command whose animation completes, the one    *)
(* given when it was queued: also after the animation was queued again for *)
(* further passes, after the switch to its finish animation, and while     *)
(* another command with another code is in the queue slot.                 *)
(***************************************************************************)
C22_Step ==
  \A i \in DOMAIN hist'.notif :
    (i > Len(hist.notif) /\ ~hist'.notif[i].abn) =>
      /\ hist'.notif[i].id \in DOMAIN hist.sent
      /\ hist'.notif[i].id = hist.animId
      /\ Len(out') = Len(out) + (Len(hist'.notif) - Len(hist.notif))
      /\ out'[Len(out) + (i - Len(hist.notif))]
            = Line(hist.sent[hist'.notif[i].id].cmd, "")

C22_TagCorrelation == [][C22_Step]_vars

\* <FW,2> has played two passes and the finish animation and has its line
\* "<FW>", written while <ST>, dispatched during the second pass, was in the
\* queue slot.
C22_Witness ==
  /\ hist.sent = << [cmd |-> "FW", param |-> 2], [cmd |-> "ST", param |-> 0] >>
  /\ hist.animId = 1 /\ hist.nextId = 2
  /\ seq.nextAnimCompleteStr = "ST"
  /\ hist.played = Repeat(FramesOf("walkForwardAnim"), 2) \o FramesOf("walkEndAnim")
  /\ out = << Line("OK", ""), Line("FW", "") >>


(***************************************************************************)
(* C23.  <SV,t,...> is never rejected: when it is dispatched the queue     *)
(* slot holds a scratch animation (not the one being played) of one        *)
(* keyframe, to be played once with tag "SV", whose joint values are those *)
(* of the command and whose duration is 0 if t < 0 and t otherwise.        *)
(***************************************************************************)
C23_Step ==
  (Len(hist'.sent) = Len(hist.sent) + 1 /\ hist'.sent[Len(hist'.sent)].cmd = "SV") =>
    LET t == hist'.sent[Len(hist'.sent)].param
        scratch == AnimData(seq', seq'.nextAnim)
    IN  /\ seq'.nextAnim \in {"setServosAnim1", "setServosAnim2"}
        /\ seq'.nextAnim # seq.currAnim
        /\ NumOfFrames(scratch) = 1
        /\ scratch[2][TWEEN_TIME_VALUE + 1] = (IF t < 0 THEN 0 ELSE t)
        /\ JointsOf(scratch[2]) =
              (LEFT_HIP_VALUE :> LeftHipIn(40)) @@ (LEFT_FOOT_VALUE :> LeftFootUp(-60))
                @@ (RIGHT_HIP_VALUE :> RightHipIn(0)) @@ (RIGHT_FOOT_VALUE :> RightFootUp(20))
        /\ seq'.nextFinishAnim = NULL
        /\ seq'.nextAnimNumLoops = 1
        /\ seq'.nextAnimCompleteStr = "SV"
        /\ hist'.nextId = Len(hist'.sent)
        /\ out' = out

C23_NegativeTimeIsZero == [][C23_Step]_vars

\* <SV,-100,40,-60,0,20> was dispatched, its keyframe of duration 0 has been
\* played and "<SV>" is written.
C23_Witness ==
  /\ hist.sent = << [cmd |-> "SV", param |-> -100] >>
  /\ seq.currAnim = "setServosAnim1"
  /\ seq.setServosAnim1[2][TWEEN_TIME_VALUE + 1] = 0
  /\ seq.curr[LEFT_HIP_VALUE] = LeftHipIn(40)
  /\ out = << Line("OK", ""), Line("SV", "") >>


(***************************************************************************)
(* C24.  <OK> is echoed at once: the step of the parser that completes     *)
(* <OK> writes the line "<OK>", whether or not an animation is in          *)
(* progress and without waiting for an update, and leaves the animation    *)
(* being played, the queue slot, the interrupt flag and the joint          *)
(* positions as they are.                                                  *)
(***************************************************************************)
C24_Step ==
  (/\ io'.fed = io.fed + 1
   /\ io'.executed
   /\ io'.disp[Len(io'.disp)].cmd = "OK") =>
     /\ out' = Append(out, Line("OK", ""))
     /\ seq' = seq
     /\ hist' = hist
     /\ parser'.currParserState = PARSER_WAITING

C24_OkEcho == [][C24_Step]_vars

\* <OK> was read while the endless wobble of <WY,-1> was in progress, half
\* way through a keyframe: it is echoed and the wobble is still in
\* progress.
C24_Witness ==
  /\ io.done = << <<"<", "W", "Y", ",", "-", "1", ">">>, <<"<", "O", "K", ">">> >>
  /\ io.executed
  /\ seq.animInProgress /\ seq.currAnim = "wobbleLeftAnim"
  /\ seq.timeInCurrFrame > 0
  /\ seq.nextAnim = NULL
  /\ out = << Line("OK", ""), Line("OK", "") >>

(***************************************************************************)
(* C25.  Input that completes no command the handler knows - bytes read    *)
(* while the parser waits, a command cut short by a byte the parser        *)
(* rejects, a complete command with an unknown code - writes nothing and   *)
(* leaves the animation being played, the queue slot, the interrupt flag   *)
(* and the joints as they are; after it the parser waits for "<" again,    *)
(* and the commands executed are the known commands sent, in order.        *)
(***************************************************************************)
Recognised(d) == d.cmd \in CmdNames

IsSerialCommand(text) == \E w \in SerialCommands : w.text = text

C25_Step ==
  (/\ io'.fed = io.fed + 1
   /\ ~(io'.executed /\ Recognised(io'.disp[Len(io'.disp)]))) =>
     /\ out' = out
     /\ seq' = seq
     /\ hist' = hist

C25_Accepts ==
  io.pending = << >> =>
    /\ parser.currParserState = PARSER_WAITING
    /\ LET known == SelectSeq(io.disp, Recognised)
           texts == SelectSeq(io.done, IsSerialCommand)
       IN  /\ Len(known) = Len(texts)
           /\ \A k \in DOMAIN known :
                 /\ [cmd |-> known[k].cmd, p |-> known[k].p] = SerialMeaning(texts[k])
                 /\ known[k].text = texts[k]

C25_MalformedIsIgnored == [][C25_Step /\ C25_Accepts']_vars

\* "<ST,3x>", cut short by "x", then a noise byte, then <ST>: only <ST> was
\* executed, and nothing was written.
C25_Witness ==
  /\ io.done = << <<"<", "S", "T", ",", "3", "x", ">">>, <<"<", "S", "T", ">">> >>
  /\ io.noise = 0 /\ io.fed = 12
  /\ Len(io.disp) = 1
  /\ hist.sent = << [cmd |-> "ST", param |-> 0] >>
  /\ seq.nextAnim = "standStraightAnim"
  /\ out = << Line("OK", "") >>


(***************************************************************************)
(* C26.  The loop count of the animation being played is never 0: once an  *)
(* animation has been started, animNumLoops is negative (endless) or at    *)
(* least 1, a count of 0 having been replaced by 1 when the animation was  *)
(* queued.                                                                 *)
(***************************************************************************)
C26_LoopCountNeverZero ==
  (hist.promoted # {}) => (seq.animNumLoops < 0 \/ seq.animNumLoops >= 1)


(***************************************************************************)
(* C27.  After StopAnimImmediate, the update that abandons the animation   *)
(* in progress starts the stand-straight animation with the tag given to   *)
(* StopAnimImmediate ("SI"), whatever commands were dispatched between the *)
(* call and that update.                                                   *)
(***************************************************************************)
C27_Step ==
  (ProcessedTick /\ hist.immediate /\ seq.animInProgress) =>
    /\ seq'.currAnim = "standStraightAnim"
    /\ seq'.animCompleteStr = "SI"
    /\ seq'.finishAnim = NULL
    /\ hist.sent[hist'.animId].cmd = "SI"

C27_ImmediateStopStartsStandStraight == [][C27_Step]_vars


(***************************************************************************)
(* C28.  Early end of a counted loop: when a pass of an animation whose    *)
(* count is still > 1 ends while another command is in the queue slot, the *)
(* remaining passes are not played: the finish animation, if there is one, *)
(* is started (and played once), then the completion line with the         *)
(* animation's tag is written, and only then is the queued command         *)
(* started.                                                                *)
(***************************************************************************)
\* The keyframes of j passes of command c, then those of its finish animation.
PassesAndFinish(c, j) ==
  Repeat(FramesOf(NamedAnim(c.cmd)[1]), j)
    \o (IF NamedAnim(c.cmd)[2] = NULL THEN << >> ELSE FramesOf(NamedAnim(c.cmd)[2]))

\* The update resolves the last keyframe of a pass whose count is > 1, with
\* the queue slot occupied.
C28_PassEnds ==
  /\ ProcessedTick
  /\ seq.animInProgress /\ ~StartCondition(seq)
  /\ seq.animNumLoops > 1
  /\ seq.nextAnim # NULL
  /\ seq.targetFrame = NumOfFrames(AnimData(seq, seq.currAnim))
  /\ hist'.played = Append(hist.played, <<seq.currAnim, seq.targetFrame>>)

C28_Step ==
  /\ C28_PassEnds =>
        /\ hist'.animId = hist.animId /\ hist'.nextId = hist.nextId
        /\ seq'.nextAnim = seq.nextAnim
        /\ seq'.nextAnimNumLoops = seq.nextAnimNumLoops
        /\ seq'.nextAnimCompleteStr = seq.nextAnimCompleteStr
        /\ seq'.animCompleteStr = seq.animCompleteStr
        /\ IF seq.finishAnim # NULL
             THEN /\ seq'.animInProgress
                  /\ seq'.currAnim = seq.finishAnim /\ seq'.finishAnim = NULL
                  /\ seq'.targetFrame = 1 /\ seq'.animNumLoops = 1
                  /\ out' = out
             ELSE /\ ~seq'.animInProgress
                  /\ out' = Append(out, Line(seq.animCompleteStr, ""))
  /\ (/\ hist'.animId # hist.animId
      /\ ~seq.interruptInProgressAnim
      /\ hist.animId # 0 /\ hist.nextDuring = hist.animId
      /\ hist.sent[hist.animId].cmd \in NamedCmds
      /\ hist.sent[hist.animId].param > 1) =>
        LET c == hist.sent[hist.animId] IN
        /\ \E j \in 1 .. c.param : hist.played = PassesAndFinish(c, j)
        /\ Cardinality(NotifOf(hist.animId)) = 1
        /\ NormalNotifOf(hist.animId) = NotifOf(hist.animId)
        /\ out[Len(out)] = Line(c.cmd, "")
        /\ out' = out

C28_EarlyTermination == [][C28_Step]_vars

\* <ST> was dispatched during the first of the MaxLoops passes of a walk:
\* the walk has played one pass and walkEndAnim, "<FW>" is written and <ST>
\* is still in the queue slot.
C28_Witness ==
  /\ hist.sent = << [cmd |-> "FW", param |-> MaxLoops], [cmd |-> "ST", param |-> 0] >>
  /\ hist.animId = 1 /\ hist.nextId = 2 /\ hist.nextDuring = 1
  /\ hist.played = FramesOf("walkForwardAnim") \o FramesOf("walkEndAnim")
  /\ ~seq.animInProgress
  /\ out = << Line("OK", ""), Line("FW", "") >>


(***************************************************************************)
(* C29.  An immediate stop during a finish animation: the first update     *)
(* after StopAnimImmediate was called while the finish animation of a      *)
(* command was being played abandons it as it would any animation: it      *)
(* writes exactly one line, "<TAG,-1>" with the tag of the command (no     *)
(* normal line has been written for it), resolves no further keyframe of   *)
(* it and starts the queued animation; no line is written for that         *)
(* command afterwards.                                                     *)
(***************************************************************************)
\* The finish animation of the command being played is the current animation.
FinishPlaying ==
  /\ hist.animId # 0
  /\ hist.sent[hist.animId].cmd \in NamedCmds
  /\ NamedAnim(hist.sent[hist.animId].cmd)[2] # NULL
  /\ seq.animInProgress
  /\ seq.currAnim = NamedAnim(hist.sent[hist.animId].cmd)[2]

C29_Step ==
  /\ (ProcessedTick /\ hist.immediate /\ FinishPlaying) =>
        LET k == hist.animId IN
        /\ NotifOf(k) = {}
        /\ out' = Append(out, Line(hist.sent[k].cmd, ",-1"))
        /\ hist'.notif = Append(hist.notif, [id |-> k, abn |-> TRUE, inprog |-> TRUE])
        /\ k \in hist'.abandoned
        /\ hist'.animId # k /\ hist'.nextId # k
        /\ hist'.played = << >>
        /\ seq'.currAnim = seq.nextAnim /\ seq'.targetFrame = 1
  /\ \A i \in DOMAIN hist'.notif :
        i > Len(hist.notif) => hist'.notif[i].id \notin hist.abandoned

C29_InterruptedFinish == [][C29_Step]_vars

\* <FW,1> was abandoned for <SI> in the first keyframe of walkEndAnim (left
\* foot up, left hip on its way back to the centre): "<FW,-1>" is the only
\* line written for it.
C29_Witness ==
  /\ hist.sent = << [cmd |-> "FW", param |-> 1], [cmd |-> "SI", param |-> 0] >>
  /\ hist.abandoned = {1} /\ hist.animId = 2
  /\ seq.start[LEFT_FOOT_VALUE] = LeftFootUp(FOOT_DELTA)
  /\ \/ LeftHipOut(HIP_DELTA) < seq.start[LEFT_HIP_VALUE]
          /\ seq.start[LEFT_HIP_VALUE] < LeftHipCentre
     \/ LeftHipCentre < seq.start[LEFT_HIP_VALUE]
          /\ seq.start[LEFT_HIP_VALUE] < LeftHipOut(HIP_DELTA)
  /\ out = << Line("OK", ""), Line("FW", ",-1") >>


(***************************************************************************)
(* C30.  The parser drains the input: a turn of loop() that finds bytes    *)
(* in the receive buffer reads all of them before loop_Animation runs, so  *)
(* that every command text received whole before the turn has been         *)
(* executed when the turn's update is made.                                *)
(***************************************************************************)
C30_Step ==
  (io'.done = io.done /\ io.pending # << >>) =>
    /\ io'.pending = << >>
    /\ Len(io'.disp) = Len(io.done)

C30_ParserDrainsInput == [][C30_Step]_vars


(***************************************************************************)
(* C31.  Digit cap: while a parameter is read, with or without a leading   *)
(* "-", each of its first MAX_PARAM_LENGTH digits is accumulated as        *)
(* value * 10 + digit and the parser stays in the parameter's state; only  *)
(* a further digit takes the parser back to PARSER_WAITING.                *)
(***************************************************************************)
\* The number of digits at the end of the bytes s.
RECURSIVE TrailingDigits(_)
TrailingDigits(s) ==
  IF s = << >> THEN 0
  ELSE IF IsDigit(s[Len(s)]) THEN 1 + TrailingDigits(SubSeq(s, 1, Len(s) - 1))
  ELSE 0

C31_Step ==
  (/\ io.pending # << >>
   /\ io'.fed = io.fed + 1
   /\ parser.currParserState \in PARSER_PARAM1 .. PARSER_PARAM5
   /\ IsDigit(Head(io.pending))) =>
     LET k == parser.currParserState - PARSER_PARAM1 + 1
         v == parser.currParamVal[k]
         d == Ascii(Head(io.pending)) - Ascii("0")
     IN  IF TrailingDigits(io.consumed) < MAX_PARAM_LENGTH
           THEN /\ parser'.currParserState = parser.currParserState
                /\ parser'.currParamVal[k] \in {(v * 10) + d, Int16((v * 10) + d)}
           ELSE parser'.currParserState = PARSER_WAITING

C31_DigitCap == [][C31_Step]_vars


(***************************************************************************)
(* C32.  At dispatch, the command letters are those of the command's own   *)
(* text, the parameters its text gives have the values of its own digits,  *)
(* and the parameters its text does not give are 0 - whatever the texts    *)
(* before it, completed or cut short, made the parser read.                *)
(***************************************************************************)
\* The number of separators of a text: the number of parameters it gives.
Separators(text) == Cardinality({i \in 1 .. Len(text) : text[i] = SEP_CHAR})

C32_NoLeak ==
  io.executed =>
    LET e == io.disp[Len(io.disp)]
        w == CHOOSE w \in SuccessiveCommands : w.text = e.text
    IN  /\ e.text \in {x.text : x \in SuccessiveCommands}
        /\ parser.currCmd = << e.text[2], e.text[3] >>
        /\ parser.currCmd = w.code
        /\ e.cmd = CmdName(w.code)
        /\ parser.currParamVal = w.p
        /\ e.p = w.p
        /\ \A k \in 1 .. 5 : (k > Separators(e.text)) => (parser.currParamVal[k] = 0)

\* A command without parameters has been dispatched after one with five.
C32_Witness ==
  /\ io.executed
  /\ Len(io.disp) = 2
  /\ io.disp[1].p = <<7, 40, -60, 3, 20>>
  /\ io.disp[2].text = <<"<", "S", "T", ">">>

\* A command with a positive parameter has been dispatched after a text cut
\* short inside a negative parameter.
C32_AfterCutShort ==
  /\ io.executed
  /\ Len(io.disp) = 1
  /\ Len(io.done) = 2
  /\ io.done[1] = <<"<", "S", "V", ",", "7", ",", "4", "0", ",", "-", "6", "x">>
  /\ io.disp[1].p = <<3, 0, 0, 0, 0>>


(***************************************************************************)
(* C33.  Once loop_Parser has read an END_CHAR, in whatever parser state,  *)
(* the parser is in PARSER_WAITING: the byte dispatches the command it     *)
(* completes once, or nothing, and the handler leaves the parser in        *)
(* PARSER_WAITING.  PARSER_EXECUTE is never the state between two bytes.   *)
(***************************************************************************)
\* The parser state holds a command that END_CHAR completes.
Completes(p) ==
  \/ p.currParserState = PARSER_COMMAND /\ p.currCmdIndex = CMD_LENGTH
  \/ p.currParserState \in PARSER_PARAM1 .. PARSER_PARAM5

C33_Step ==
  /\ parser'.currParserState # PARSER_EXECUTE
  /\ Feed(END_CHAR) =>
       /\ parser'.currParserState = PARSER_WAITING
       /\ IF Completes(parser)
            THEN /\ Len(io'.disp) = Len(io.disp) + 1
                 /\ io'.executed
                 /\ Len(hist'.sent) <= Len(hist.sent) + 1
            ELSE /\ io'.disp = io.disp
                 /\ ~io'.executed
                 /\ <<seq, out, hist>>' = <<seq, out, hist>>

C33_EndCharLeavesWaiting == [][C33_Step]_vars

\* An END_CHAR has completed <ST> after an END_CHAR that completed nothing.
C33_Witness ==
  /\ io.executed
  /\ io.fed > 4
  /\ io.disp[Len(io.disp)].text = <<"<", "S", "T", ">">>
  /\ Len(io.disp) = 1
  /\ parser.currParserState = PARSER_WAITING


(***************************************************************************)
(* C34.  A call of loop_Animation made less than millisBetweenAnimUpdate   *)
(* after the last update changes nothing: the animation in progress, the   *)
(* queue slot, the interrupt flag, the joint positions and the time of the *)
(* last update and of the start of the keyframe are as they were, nothing  *)
(* is written to the serial port and no servo is written.  (The model      *)
(* keeps the two times relative to millis(): they grow by the time that    *)
(* has passed.)  A call made millisBetweenAnimUpdate or more after the     *)
(* last update is an update.                                               *)
(***************************************************************************)
\* This step is a call of loop_Animation, dt after the last call.
Called(dt) == Tick(dt) \/ EarlyTick(dt)

C34_Step ==
  \A dt \in TimeSteps \cup EarlySteps :
    Called(dt) =>
      IF seq.sinceLastAnimUpdate + dt < millisBetweenAnimUpdate
        THEN /\ seq' = [seq EXCEPT
                          !.sinceLastAnimUpdate = @ + dt,
                          !.timeInCurrFrame = IF seq.animInProgress THEN @ + dt ELSE @]
             /\ out' = out
             /\ hist' = hist
        ELSE seq'.sinceLastAnimUpdate = 0

C34_EarlyCallChangesNothing == [][C34_Step]_vars

\* Two calls in a row have been made within the update period of an update
\* that left an animation in progress, a queued animation and the
\* interrupt flag set.
C34_Witness ==
  /\ seq.sinceLastAnimUpdate = 19
  /\ seq.animInProgress
  /\ seq.nextAnim # NULL
  /\ seq.interruptInProgressAnim


(***************************************************************************)
(* C35.  SetServos never writes the table of the animation in progress:    *)
(* the table it writes and queues is not the one currAnim points to, so    *)
(* the keyframes of the animation in progress are the same after every     *)
(* step, for any sequence of <SV> commands and updates.                    *)
(***************************************************************************)
C35_Step ==
  /\ seq.animInProgress =>
       AnimData(seq', seq.currAnim) = AnimData(seq, seq.currAnim)
  /\ (\E c \in JointCommands : DispatchJoints(c)) =>
       /\ seq'.nextAnim \in {"setServosAnim1", "setServosAnim2"}
       /\ seq'.nextAnim # seq.currAnim

C35_InProgressTableKept == [][C35_Step]_vars

\* A third <SV> has been dispatched while the second one's table is played:
\* it wrote the first one's table.
C35_Witness ==
  /\ Len(hist.sent) = 3
  /\ seq.animInProgress
  /\ seq.currAnim = "setServosAnim2"
  /\ seq.nextAnim = "setServosAnim1"
  /\ hist.sent[1].param # hist.sent[3].param
  /\ seq.setServosAnim1[2] # seq.setServosAnim2[2]
  /\ hist.animId = 2
  /\ hist.nextId = 3


(***************************************************************************)
(* C36.  When the keyframe of a started <SV,t,a,b,c,d> has elapsed and     *)
(* "<SV>" is written for it, each of the four joints is at the commanded   *)
(* position: the centre of the joint plus the signed offset, whatever the  *)
(* offsets are.                                                            *)
(***************************************************************************)
\* The positions <SV,p[1],p[2],p[3],p[4],p[5]> commands.
Commanded(p) ==
  (LEFT_HIP_VALUE :> LeftHipIn(p[2])) @@ (LEFT_FOOT_VALUE :> LeftFootUp(p[3]))
    @@ (RIGHT_HIP_VALUE :> RightHipIn(p[4])) @@ (RIGHT_FOOT_VALUE :> RightFootUp(p[5]))

C36_Step ==
  \A i \in DOMAIN hist'.notif :
    (/\ i > Len(hist.notif)
     /\ ~hist'.notif[i].abn
     /\ hist.sent[hist'.notif[i].id].cmd = "SV") =>
       \E c \in Commands :
         /\ c.cmd = "SV"
         /\ c.p[1] = hist.sent[hist'.notif[i].id].param
         /\ seq'.curr = Commanded(c.p)
         /\ seq'.servo = Commanded(c.p)

C36_JointsAtCommandedPosition == [][C36_Step]_vars


(***************************************************************************)
(* C38.  Whenever interruptInProgressAnim is set the queue slot is         *)
(* occupied; the flag is set by the dispatch of <SI> only, and every       *)
(* update of loop_Animation leaves it clear: the update that follows the   *)
(* <SI> consumes it, so that it cannot stay set and abandon an animation   *)
(* started later.                                                          *)
(***************************************************************************)
C38_Step ==
  /\ seq.interruptInProgressAnim => seq.nextAnim # NULL
  /\ seq'.interruptInProgressAnim => seq'.nextAnim # NULL
  /\ ProcessedTick => ~seq'.interruptInProgressAnim
  /\ (seq'.interruptInProgressAnim /\ ~seq.interruptInProgressAnim) =>
        /\ Len(hist'.sent) = Len(hist.sent) + 1
        /\ hist'.sent[Len(hist'.sent)].cmd = "SI"
  /\ (hist'.abandoned # hist.abandoned) =>
        /\ seq.interruptInProgressAnim
        /\ hist'.abandoned = hist.abandoned \cup {hist.animId}
        /\ hist.animId \in hist.promoted

C38_FlagConsumedByNextUpdate == [][C38_Step]_vars

\* The update after an <SI> dispatched during a walk has abandoned the walk,
\* started the stand-straight animation and cleared the flag.
C38_Witness ==
  /\ hist.sent = << [cmd |-> "FW", param |-> -1], [cmd |-> "SI", param |-> 0] >>
  /\ hist.abandoned = {1}
  /\ hist.animId = 2
  /\ seq.sinceLastAnimUpdate = 0
  /\ ~seq.interruptInProgressAnim
  /\ seq.nextAnim = NULL
  /\ seq.animInProgress


(***************************************************************************)
(* C37.  At every update that leaves an animation in progress with a       *)
(* target keyframe of duration > 0, the time in the keyframe is between 0  *)
(* and the duration (the interpolation fraction is within [0,1]), and each *)
(* joint the keyframe has a value for is written a position between its    *)
(* position at the start of the keyframe and the keyframe's value,         *)
(* inclusive - however long after the last update this one comes.          *)
(***************************************************************************)
Between(a, x, b) == (a <= x /\ x <= b) \/ (b <= x /\ x <= a)

C37_Step ==
  (/\ ProcessedTick
   /\ seq'.animInProgress
   /\ TargetRow(seq')[TWEEN_TIME_VALUE + 1] > 0) =>
     LET row == TargetRow(seq')
     IN  /\ 0 <= seq'.timeInCurrFrame
         /\ seq'.timeInCurrFrame <= row[TWEEN_TIME_VALUE + 1]
         /\ \A j \in Joints :
               row[j + 1] >= 0 =>
                 /\ Between(seq'.start[j], seq'.curr[j], row[j + 1])
                 /\ seq'.servo[j] = seq'.curr[j]

C37_FractionWithinUnit == [][C37_Step]_vars


(***************************************************************************)
(* C39.  Termination: while loop_Animation keeps being called with         *)
(* advancing time and no further command is dispatched, an animation in    *)
(* progress with a finite loop count eventually ends (its completion line  *)
(* is written); when neither the animation in progress nor the queued one  *)
(* loops without end, the sequencer eventually has no animation in         *)
(* progress and an empty queue slot; and in that state an update changes   *)
(* nothing.                                                                *)
(***************************************************************************)
Quiescent == ~seq.animInProgress /\ seq.nextAnim = NULL

NoEndlessLoop ==
  /\ seq.animInProgress => seq.animNumLoops >= 0
  /\ seq.nextAnim # NULL => seq.nextAnimNumLoops >= 0

C39_QuiescentStep ==
  (Quiescent /\ hist'.sent = hist.sent) =>
     /\ Quiescent'
     /\ out' = out
     /\ seq'.curr = seq.curr /\ seq'.servo = seq.servo /\ seq'.start = seq.start
     /\ seq'.currAnim = seq.currAnim /\ seq'.targetFrame = seq.targetFrame
     /\ seq'.interruptInProgressAnim = seq.interruptInProgressAnim

C39_Termination ==
  /\ [][C39_QuiescentStep]_vars
  /\ \A n \in 1 .. (MaxCmds + 1) :
        (Len(hist.sent) = n /\ seq.animInProgress /\ seq.animNumLoops >= 0)
          ~> (Len(hist.sent) > n \/ NotifOf(hist.animId) # {})
  /\ \A n \in 1 .. (MaxCmds + 1) :
        (Len(hist.sent) = n /\ NoEndlessLoop)
          ~> (Len(hist.sent) > n \/ Quiescent)


=============================================================================
